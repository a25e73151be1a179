-------------------------- MODULE QueueDispatchProofs --------------------------
(***************************************************************************)
(* Proofs about QueueDispatch: a job the hub still follows is never sent   *)
(* to the printer again, every report fits the cloud's transition map, and *)
(* a job that is completed was printed, for any jobs, prints and guard.    *)
(***************************************************************************)
EXTENDS QueueDispatch, ListsProofs

-------------------------------------------------------------------------------
(* The guard.  It outlives the dispatches it was made for: after a rebuild of the
   adapter it holds jobs nobody follows.  They are older than every job that is
   followed, so they are the ones the cap evicts.  *)

\* The jobs the guard g has to hold are js, and they are its youngest.
Tracks(js, g) ==
  /\ js \in Seq(QueueJobs) /\ IsInjective(js)
  /\ g \in Seq(QueueJobs) /\ IsInjective(g) /\ Len(g) <= GuardMax
  /\ ToSet(js) \subseteq ToSet(g)
  /\ \A i, j \in 1 .. Len(g) : i < j /\ g[i] \in ToSet(js) => g[j] \in ToSet(js)

\* Filtering by one job, in the guard's order.
LEMMA KeepGuard ==
  ASSUME NEW g \in Seq(QueueJobs), IsInjective(g), NEW q \in QueueJobs
  PROVE  LET k == Keep(g, QueueJobs \ {q})
         IN  /\ k \in Seq(QueueJobs) /\ IsInjective(k) /\ Len(k) <= Len(g)
             /\ ToSet(k) = ToSet(g) \ {q}
             /\ \A a, b \in 1 .. Len(k) : a < b =>
                  \E c, d \in 1 .. Len(g) : c < d /\ g[c] = k[a] /\ g[d] = k[b]
<1> DEFINE k == Keep(g, QueueJobs \ {q})
<1>1. /\ k \in Seq(QueueJobs) /\ IsInjective(k) /\ Len(k) <= Len(g)
      /\ ToSet(k) = ToSet(g) \cap (QueueJobs \ {q})
  BY KeepProperties
<1>2. InOrder(g, Len(g), k)
  BY KeepOrder
<1>3. ToSet(g) \subseteq QueueJobs
  BY DEF ToSet
<1>4. \A a, b \in 1 .. Len(k) : a < b =>
        \E c, d \in 1 .. Len(g) : c < d /\ g[c] = k[a] /\ g[d] = k[b]
  BY <1>2 DEF InOrder
<1> HIDE DEF k
<1>5. ToSet(k) = ToSet(g) \ {q}
  BY <1>1, <1>3
<1>6. QED
  BY <1>1, <1>4, <1>5 DEF k

\* A job that is over leaves the guard and the dispatches.
LEMMA ForgetTracks ==
  ASSUME NEW js, Tracks(js, guard), js # <<>>
  PROVE  Tracks(Tail(js), Forget(Head(js)))
<1> DEFINE q == Head(js)
           k == Keep(guard, QueueJobs \ {q})
<1>1. /\ js \in Seq(QueueJobs) /\ IsInjective(js)
      /\ guard \in Seq(QueueJobs) /\ IsInjective(guard) /\ Len(guard) <= GuardMax
      /\ ToSet(js) \subseteq ToSet(guard)
      /\ \A i, j \in 1 .. Len(guard) : i < j /\ guard[i] \in ToSet(js) => guard[j] \in ToSet(js)
  BY DEF Tracks
<1>2. q \in QueueJobs /\ Tail(js) \in Seq(QueueJobs)
  BY <1>1
<1>3. /\ k \in Seq(QueueJobs) /\ IsInjective(k) /\ Len(k) <= Len(guard)
      /\ ToSet(k) = ToSet(guard) \ {q}
      /\ \A a, b \in 1 .. Len(k) : a < b =>
           \E c, d \in 1 .. Len(guard) : c < d /\ guard[c] = k[a] /\ guard[d] = k[b]
  BY <1>1, <1>2, KeepGuard
<1> HIDE DEF k
<1>4. IsInjective(Tail(js)) /\ ToSet(Tail(js)) = ToSet(js) \ {q}
  <2>1. ToSet(js) = ToSet(Tail(js)) \cup {q}
    BY <1>1, TailSet
  <2>2. Len(js) \in Nat \ {0} /\ Len(Tail(js)) = Len(js) - 1 /\ q = js[1]
    BY <1>1
  <2>3. \A i \in 1 .. Len(js) - 1 : i + 1 \in 1 .. Len(js) /\ i + 1 # 1 /\ Tail(js)[i] = js[i + 1]
    BY <1>1, <2>2
  <2>4. DOMAIN js = 1 .. Len(js) /\ DOMAIN Tail(js) = 1 .. Len(js) - 1 /\ 1 \in 1 .. Len(js)
    BY <1>1, <1>2, <2>2
  <2>5. \A i, j \in 1 .. Len(js) : js[i] = js[j] => i = j
    BY <1>1, <2>4 DEF IsInjective
  <2>6. \A i, j \in 1 .. Len(js) - 1 : Tail(js)[i] = Tail(js)[j] => i = j
    <3>1. SUFFICES ASSUME NEW i \in 1 .. Len(js) - 1, NEW j \in 1 .. Len(js) - 1, Tail(js)[i] = Tail(js)[j]
                   PROVE  i = j
      OBVIOUS
    <3>2. i + 1 = j + 1
      BY <2>3, <2>5, <3>1
    <3>3. QED
      BY <3>2
  <2>7. q \notin ToSet(Tail(js))
    BY <2>2, <2>3, <2>4, <2>5 DEF ToSet
  <2>8. IsInjective(Tail(js))
    BY <2>4, <2>6 DEF IsInjective
  <2>9. QED
    BY <2>1, <2>7, <2>8
<1>5. ASSUME NEW a \in 1 .. Len(k), NEW b \in 1 .. Len(k), a < b, k[a] \in ToSet(Tail(js))
      PROVE  k[b] \in ToSet(Tail(js))
  <2>1. PICK c, d \in 1 .. Len(guard) : c < d /\ guard[c] = k[a] /\ guard[d] = k[b]
    BY <1>3, <1>5
  <2>2. k[b] \in ToSet(js)
    BY <1>1, <1>4, <1>5, <2>1
  <2>3. k[b] \in ToSet(k)
    <3>1. DOMAIN k = 1 .. Len(k)
      BY <1>3
    <3>2. QED
      BY <1>5, <3>1 DEF ToSet
  <2>4. QED
    BY <1>3, <1>4, <2>2, <2>3
<1>6. Len(k) <= GuardMax
  BY <1>1, <1>3, QueueDispatchAssumption
<1> HIDE DEF q
<1>7. Tracks(Tail(js), k)
  BY <1>1, <1>2, <1>3, <1>4, <1>5, <1>6 DEF Tracks
<1>8. QED
  BY <1>7 DEF Forget, k, q

\* A job that is dispatched is remembered: if the cap evicts a job, nobody follows it.
LEMMA RememberTracks ==
  ASSUME NEW js, Tracks(js, guard), NEW q \in QueueJobs, q \notin ToSet(guard), Len(js) + 1 <= GuardMax
  PROVE  Tracks(Append(js, q), Remember(q))
<1> DEFINE k == Keep(guard, QueueJobs \ {q})
           grown == Append(k, q)
           F == ToSet(js) \cup {q}
<1>1. /\ js \in Seq(QueueJobs) /\ IsInjective(js)
      /\ guard \in Seq(QueueJobs) /\ IsInjective(guard) /\ Len(guard) <= GuardMax
      /\ ToSet(js) \subseteq ToSet(guard)
      /\ \A i, j \in 1 .. Len(guard) : i < j /\ guard[i] \in ToSet(js) => guard[j] \in ToSet(js)
  BY DEF Tracks
<1>2. /\ k \in Seq(QueueJobs) /\ IsInjective(k)
      /\ ToSet(k) = ToSet(guard)
      /\ \A a, b \in 1 .. Len(k) : a < b =>
           \E c, d \in 1 .. Len(guard) : c < d /\ guard[c] = k[a] /\ guard[d] = k[b]
  <2>1. /\ k \in Seq(QueueJobs) /\ IsInjective(k)
        /\ ToSet(k) = ToSet(guard) \ {q}
        /\ \A a, b \in 1 .. Len(k) : a < b =>
             \E c, d \in 1 .. Len(guard) : c < d /\ guard[c] = k[a] /\ guard[d] = k[b]
    BY <1>1, KeepGuard
  <2> HIDE DEF k
  <2>2. QED
    BY <2>1
<1> HIDE DEF k
<1>3. Len(k) = Len(guard)
  BY <1>1, <1>2, InjectiveCount
<1>4. \A a, b \in 1 .. Len(k) : a < b /\ k[a] \in ToSet(js) => k[b] \in ToSet(js)
  <2> SUFFICES ASSUME NEW a \in 1 .. Len(k), NEW b \in 1 .. Len(k), a < b, k[a] \in ToSet(js)
               PROVE  k[b] \in ToSet(js)
    OBVIOUS
  <2>1. PICK c, d \in 1 .. Len(guard) : c < d /\ guard[c] = k[a] /\ guard[d] = k[b]
    BY <1>2
  <2>2. QED
    BY <1>1, <2>1
<1>5. /\ grown \in Seq(QueueJobs) /\ IsInjective(grown) /\ ToSet(grown) = ToSet(guard) \cup {q}
      /\ Len(grown) = Len(k) + 1 /\ grown[Len(k) + 1] = q /\ \A i \in 1 .. Len(k) : grown[i] = k[i]
  BY <1>2, AppendSet, AppendDistinct
<1>6. Append(js, q) \in Seq(QueueJobs) /\ IsInjective(Append(js, q)) /\ ToSet(Append(js, q)) = F
  BY <1>1, AppendSet, AppendDistinct
<1>7. \A i \in 1 .. Len(k) + 1 : i \in 1 .. Len(k) \/ i = Len(k) + 1
  BY <1>2
<1>8. ASSUME NEW a \in 1 .. Len(k) + 1, NEW b \in 1 .. Len(k) + 1, a < b, grown[a] \in F
      PROVE  grown[b] \in F
  <2>1. CASE b = Len(k) + 1
    BY <1>5, <2>1
  <2>2. CASE b \in 1 .. Len(k)
    <3>1. a \in 1 .. Len(k)
      BY <1>2, <1>8, <2>2
    <3>2. k[a] # q
      <4>1. DOMAIN k = 1 .. Len(k)
        BY <1>2
      <4>2. k[a] \in ToSet(k)
        BY <3>1, <4>1 DEF ToSet
      <4>3. QED
        BY <1>2, <4>2
    <3>3. k[a] \in ToSet(js)
      BY <1>5, <1>8, <3>1, <3>2
    <3>4. QED
      BY <1>4, <1>5, <1>8, <2>2, <3>1, <3>3
  <2>3. QED
    BY <1>7, <2>1, <2>2
<1> HIDE DEF grown, F
<1>9. Len(k) \in Nat /\ GuardMax \in Nat /\ GuardMax # 0 /\ Len(js) \in Nat /\ Len(k) <= GuardMax
  BY <1>1, <1>2, <1>3, QueueDispatchAssumption
<1>10. CASE Len(k) + 1 <= GuardMax
  <2>1. Remember(q) = grown
    <3>1. ~(Len(grown) - GuardMax > 0)
      BY <1>5, <1>9, <1>10
    <3>2. Remember(q) = IF Len(grown) - GuardMax > 0
                        THEN SubSeq(grown, Len(grown) - GuardMax + 1, Len(grown)) ELSE grown
      BY DEF Remember, grown, k
    <3>3. QED
      BY <3>1, <3>2
  <2>2. F \subseteq ToSet(grown)
    BY <1>1, <1>5 DEF F
  <2>3. QED
    BY <1>5, <1>6, <1>8, <1>10, <2>1, <2>2 DEF Tracks
<1>11. CASE ~(Len(k) + 1 <= GuardMax)
  <2> DEFINE rest == SubSeq(grown, 2, Len(grown))
  <2>1. Len(k) = GuardMax
    BY <1>9, <1>11
  <2>2. Remember(q) = rest
    <3>1. Len(grown) - GuardMax = 1
      BY <1>5, <1>9, <2>1
    <3>2. Remember(q) = IF Len(grown) - GuardMax > 0
                        THEN SubSeq(grown, Len(grown) - GuardMax + 1, Len(grown)) ELSE grown
      BY DEF Remember, grown, k
    <3>3. Remember(q) = SubSeq(grown, 1 + 1, Len(grown))
      BY <3>1, <3>2
    <3>4. 1 + 1 = 2
      OBVIOUS
    <3>5. QED
      BY <3>3, <3>4
  <2>3. 1 \in 0 .. Len(grown) /\ 1 \in 1 .. Len(k)
    BY <1>5, <1>9, <2>1
  <2>4. /\ rest \in Seq(QueueJobs) /\ IsInjective(rest)
        /\ {grown[i] : i \in 1 .. 1} \cup ToSet(rest) = ToSet(grown)
    <3> DEFINE n == 1
    <3>1. n \in 0 .. Len(grown)
      BY <2>3
    <3> HIDE DEF n
    <3>2. /\ SubSeq(grown, n + 1, Len(grown)) \in Seq(QueueJobs)
          /\ IsInjective(SubSeq(grown, n + 1, Len(grown)))
          /\ {grown[i] : i \in 1 .. n} \cup ToSet(SubSeq(grown, n + 1, Len(grown))) = ToSet(grown)
      BY <1>5, <3>1, CutInTwo
    <3>3. n = 1 /\ n + 1 = 2
      BY DEF n
    <3>4. QED
      BY <3>2, <3>3
  <2>5. grown[1] = k[1] /\ k[1] \in ToSet(k)
    BY <1>2, <1>5, <2>3 DEF ToSet
  <2>6. k[1] \notin ToSet(js)
    <3>1. SUFFICES ASSUME k[1] \in ToSet(js) PROVE FALSE
      OBVIOUS
    <3>2. \A b \in 1 .. Len(k) : b = 1 \/ 1 < b
      BY <1>9
    <3>3. \A b \in 1 .. Len(k) : k[b] \in ToSet(js)
      BY <1>4, <2>3, <3>1, <3>2
    <3>4. ToSet(k) \subseteq ToSet(js)
      BY <1>2, <3>3 DEF ToSet
    <3>5. Cardinality(ToSet(k)) = Len(k) /\ Cardinality(ToSet(js)) = Len(js) /\ IsFiniteSet(ToSet(js))
      BY <1>1, <1>2, InjectiveCount
    <3>6. Cardinality(ToSet(k)) <= Cardinality(ToSet(js))
      BY <3>4, <3>5, FS_Subset
    <3>7. QED
      BY <1>9, <2>1, <3>5, <3>6
  <2>7. grown[1] \notin F
    BY <1>2, <2>5, <2>6 DEF F
  <2>8. F \subseteq ToSet(rest)
    <3>1. F \subseteq ToSet(grown)
      BY <1>1, <1>5 DEF F
    <3>2. {grown[i] : i \in 1 .. 1} = {grown[1]}
      OBVIOUS
    <3>3. QED
      BY <2>4, <2>7, <3>1, <3>2
  <2>9. Len(rest) = GuardMax /\ \A i \in 1 .. GuardMax : i + 1 \in 1 .. Len(k) + 1 /\ rest[i] = grown[i + 1]
    <3>1. \A i \in 2 .. Len(grown) : grown[i] \in QueueJobs
      BY <1>5
    <3>2. /\ Len(rest) = (IF 2 <= Len(grown) THEN Len(grown) - 2 + 1 ELSE 0)
          /\ \A i \in 1 .. (Len(grown) - 2 + 1) : rest[i] = grown[2 + i - 1]
      BY <1>5, <1>9, <3>1, SubSeqProperties
    <3>3. Len(grown) = GuardMax + 1 /\ Len(grown) - 2 + 1 = GuardMax /\ 2 <= Len(grown)
      BY <1>5, <1>9, <2>1
    <3>4. \A i \in 1 .. GuardMax : i + 1 \in 1 .. Len(k) + 1 /\ 2 + i - 1 = i + 1
      BY <1>9, <2>1
    <3> HIDE DEF rest
    <3>5. QED
      BY <3>2, <3>3, <3>4
  <2> HIDE DEF rest
  <2>10. \A i, j \in 1 .. Len(rest) : i < j /\ rest[i] \in F => rest[j] \in F
    <3>1. SUFFICES ASSUME NEW i \in 1 .. GuardMax, NEW j \in 1 .. GuardMax, i < j, rest[i] \in F
                   PROVE  rest[j] \in F
      BY <2>9
    <3>2. i + 1 < j + 1
      BY <1>9, <3>1
    <3>3. QED
      BY <1>8, <2>9, <3>1, <3>2
  <2>11. Len(rest) <= GuardMax
    BY <1>9, <2>9
  <2>12. QED
    BY <1>6, <2>2, <2>4, <2>8, <2>10, <2>11 DEF Tracks
<1>12. QED
  BY <1>10, <1>11

-------------------------------------------------------------------------------
(* Types. *)

DispatchSet == [job : QueueJobs, printing : BOOLEAN, baseline : SUBSET Nat, aged : BOOLEAN]
PrintSet == [owner : QueueJobs \cup {Nobody}, done : BOOLEAN]

Typed ==
  /\ cloud \in [QueueJobs -> {"queued", "completed", "held"} \cup InProgress]
  /\ flight \subseteq QueueJobs /\ todo \subseteq QueueJobs
  /\ prints \in Seq(PrintSet) /\ pending \subseteq 1 .. Len(prints)
  /\ Busy => prints # <<>>
  /\ dispatches \in Seq(DispatchSet) /\ reports \in Seq(ReportSet)
  /\ pc \in {"idle", "dispatch", "record", "flush", "ack"}
  /\ pc = "record" => current \in QueueJobs

\* The fields of a dispatch, and what marking it leaves alone.
LEMMA DispatchParts ==
  ASSUME NEW d \in DispatchSet
  PROVE  /\ d.job \in QueueJobs /\ d.printing \in BOOLEAN /\ d.aged \in BOOLEAN
         /\ LET e == [d EXCEPT !.aged = TRUE]
            IN  /\ e \in DispatchSet /\ e.job = d.job /\ e.printing = d.printing
                /\ e.baseline = d.baseline /\ e.aged
         /\ LET e == [d EXCEPT !.printing = TRUE]
            IN  /\ e \in DispatchSet /\ e.job = d.job /\ e.printing
                /\ e.baseline = d.baseline /\ e.aged = d.aged
BY DEF DispatchSet

\* The job of a dispatch.
LEMMA DispatchJob == \A d \in DispatchSet : d.job \in QueueJobs
BY DEF DispatchSet

\* A dispatch as record_dispatch makes it.
LEMMA DispatchMake ==
  ASSUME NEW q \in QueueJobs, NEW b \in SUBSET Nat
  PROVE  LET d == [job |-> q, printing |-> FALSE, baseline |-> b, aged |-> FALSE]
         IN  d \in DispatchSet /\ d.job = q /\ ~d.printing /\ d.baseline = b /\ ~d.aged
BY DEF DispatchSet

\* A report.
LEMMA ReportMake ==
  ASSUME NEW q \in QueueJobs, NEW st \in {"uploading", "printing", "completed", "held"}
  PROVE  Report(q, st) \in ReportSet /\ Report(q, st).job = q /\ Report(q, st).state = st
BY DEF Report, ReportSet

\* Marking the oldest dispatch.
LEMMA MarkOldest ==
  ASSUME NEW D, NEW ds \in Seq(D), ds # <<>>, NEW e \in D
  PROVE  LET r == [ds EXCEPT ![1] = e]
         IN  /\ r \in Seq(D) /\ Len(r) = Len(ds) /\ r[1] = e
             /\ \A i \in 1 .. Len(ds) : i # 1 => r[i] = ds[i]
OBVIOUS

\* Joining one or two reports is appending them.
LEMMA JoinOneOrTwo ==
  ASSUME NEW T, NEW s \in Seq(T), NEW x \in T, NEW y \in T
  PROVE  s \o <<x>> = Append(s, x) /\ s \o <<x, y>> = Append(Append(s, x), y)
<1>1. s \o <<x>> = Append(s, x)
  BY AppendIsConcat
<1>2. <<x, y>> = <<x>> \o <<y>> /\ <<x>> \in Seq(T) /\ <<y>> \in Seq(T)
  <2>1. <<x>> \in Seq(T) /\ <<y>> \in Seq(T)
    OBVIOUS
  <2>2. <<x>> \o <<y>> = Append(<<x>>, y)
    BY <2>1, AppendIsConcat
  <2>3. Append(<<x>>, y) = <<x, y>>
    <3> DEFINE a == Append(<<x>>, y)
               b == <<x, y>>
    <3>1. a \in Seq(T) /\ Len(a) = 2 /\ a[1] = x /\ a[2] = y
      BY <2>1
    <3>2. b \in Seq(T) /\ Len(b) = 2 /\ b[1] = x /\ b[2] = y
      OBVIOUS
    <3> HIDE DEF a, b
    <3>3. \A i \in 1 .. 2 : i = 1 \/ i = 2
      OBVIOUS
    <3>4. a = b
      BY <3>1, <3>2, <3>3, SeqEqual
    <3>5. QED
      BY <3>4 DEF a, b
  <2>4. QED
    BY <2>1, <2>2, <2>3
<1>3. s \o (<<x>> \o <<y>>) = (s \o <<x>>) \o <<y>>
  BY <1>2, ConcatAssociative
<1>4. Append(s, x) \o <<y>> = Append(Append(s, x), y)
  <2>1. Append(s, x) \in Seq(T)
    OBVIOUS
  <2>2. QED
    BY <2>1, AppendIsConcat
<1>5. QED
  BY <1>1, <1>2, <1>3, <1>4

\* What CollectLink reports of the oldest dispatch and the print taken for it.
LinkReports(d, key) ==
  IF ~prints[key].done THEN <<Report(d.job, "held")>>
  ELSE IF d.printing THEN <<Report(d.job, "completed")>>
  ELSE <<Report(d.job, "printing"), Report(d.job, "completed")>>

\* The oldest dispatch.
LEMMA OldestTyped == ASSUME Typed, dispatches # <<>> PROVE Oldest \in DispatchSet
BY DEF Typed, Oldest

\* The initial states are typed.
LEMMA InitTyped == Init => Typed
BY DEF Init, Typed, InProgress, Busy

\* What a step on the cloud's side does: an allowed report is applied.
LEMMA ApplyTyped ==
  ASSUME Typed, reports # <<>>, Apply(Head(reports))
  PROVE  cloud' \in [QueueJobs -> {"queued", "completed", "held"} \cup InProgress]
<1>1. Head(reports) \in ReportSet
  BY DEF Typed
<1>2. Head(reports).job \in QueueJobs /\ Head(reports).state \in {"uploading", "printing", "completed", "held"}
  BY <1>1 DEF ReportSet
<1>3. cloud' = cloud \/ cloud' = [cloud EXCEPT ![Head(reports).job] = Head(reports).state]
  BY DEF Apply
<1>4. QED
  BY <1>2, <1>3 DEF Typed, InProgress

\* Every step preserves the types.
LEMMA StepTyped == Typed /\ [Next]_vars => Typed'
<1> SUFFICES ASSUME Typed, [Next]_vars PROVE Typed'
  OBVIOUS
<1> USE DEF printerVars, trackVars, beatVars, envVars
<1>a. Len(prints) \in Nat
  BY DEF Typed
<1>b. pending \subseteq Nat
  BY <1>a DEF Typed
<1>1. CASE UNCHANGED vars
  BY <1>1 DEF vars, Typed, Busy
<1>2. ASSUME NEW q \in QueueJobs, Assign(q) PROVE Typed'
  BY <1>2 DEF Assign, Typed, Busy, InProgress
<1>3. ASSUME NEW p \in PrintSet, prints' = Append(prints, p), flight' \subseteq flight,
             UNCHANGED <<trackVars, beatVars, cloud>>
      PROVE  Typed'
  <2>1. prints' \in Seq(PrintSet) /\ Len(prints') = Len(prints) + 1 /\ prints' # <<>>
    BY <1>3 DEF Typed
  <2>2. pending' \subseteq 1 .. Len(prints')
    BY <1>3, <1>a, <2>1 DEF Typed
  <2>3. QED
    BY <1>3, <2>1, <2>2 DEF Typed
<1>4. ASSUME NEW q \in QueueJobs, TakeUp(q) PROVE Typed'
  <2>1. [owner |-> q, done |-> FALSE] \in PrintSet
    BY DEF PrintSet
  <2>2. QED
    BY <1>3, <1>4, <2>1 DEF TakeUp
<1>5. CASE StartForeign
  <2>1. [owner |-> Nobody, done |-> FALSE] \in PrintSet
    BY DEF PrintSet
  <2>2. QED
    BY <1>3, <1>5, <2>1 DEF StartForeign
<1>6. ASSUME NEW q \in QueueJobs, Ignore(q) PROVE Typed'
  BY <1>6 DEF Ignore, Typed, Busy
<1>7. ASSUME NEW st \in {"FINISH", "FAILED"}, EndPrint(st) PROVE Typed'
  <2>1. /\ Busy /\ gcode' = st /\ prints' = [prints EXCEPT ![Len(prints)].done = (st = "FINISH")]
        /\ pending' = pending \cup {Len(prints)}
        /\ UNCHANGED <<flight, dispatches, linked, beatVars, cloud>>
    BY <1>7 DEF EndPrint
  <2>2. Len(prints) \in 1 .. Len(prints)
    BY <2>1, <1>a DEF Typed
  <2>3. prints' \in Seq(PrintSet) /\ Len(prints') = Len(prints)
    <3>1. prints[Len(prints)] \in PrintSet
      BY <2>2 DEF Typed
    <3>2. [prints[Len(prints)] EXCEPT !.done = (st = "FINISH")] \in PrintSet
      BY <3>1 DEF PrintSet
    <3>3. prints' = [prints EXCEPT ![Len(prints)] = [prints[Len(prints)] EXCEPT !.done = (st = "FINISH")]]
      BY <2>1
    <3>4. QED
      BY <2>2, <3>2, <3>3 DEF Typed
  <2>4. QED
    BY <2>1, <2>2, <2>3 DEF Typed, Busy
<1>8. CASE Age
  <2>1. /\ dispatches # <<>> /\ dispatches' = [dispatches EXCEPT ![1] = [Oldest EXCEPT !.aged = TRUE]]
        /\ UNCHANGED <<printerVars, pending, linked, beatVars, cloud>>
    BY <1>8 DEF Age, Oldest
  <2>2. [Oldest EXCEPT !.aged = TRUE] \in DispatchSet
    BY <2>1, OldestTyped, DispatchParts
  <2>3. dispatches' \in Seq(DispatchSet)
    BY <2>1, <2>2, MarkOldest DEF Typed
  <2>4. QED
    BY <2>1, <2>3 DEF Typed, Busy
<1>9. CASE Beat
  BY <1>9 DEF Beat, Typed, Busy
<1>10. ASSUME NEW q \in QueueJobs, Dispatch(q) PROVE Typed'
  <2>1. /\ todo' \subseteq todo /\ flight' \subseteq flight \cup {q}
        /\ pc' = pc \/ (pc' = "record" /\ current' = q)
        /\ pc' = pc => current' = current
        /\ UNCHANGED <<gcode, prints, pending, dispatches, cloud>>
    BY <1>10 DEF Dispatch, DispatchSkip, DispatchHeld, DispatchPublish
  <2>2. reports' \in Seq(ReportSet)
    <3>1. /\ Report(q, "held") \in ReportSet /\ Report(q, "uploading") \in ReportSet
      BY ReportMake
    <3>2. \/ reports' = reports
          \/ reports' = reports \o <<Report(q, "held")>>
          \/ reports' = reports \o <<Report(q, "uploading"), Report(q, "held")>>
          \/ reports' = Append(reports, Report(q, "uploading"))
      BY <1>10 DEF Dispatch, DispatchSkip, DispatchHeld, DispatchPublish
    <3>3. reports \in Seq(ReportSet)
      BY DEF Typed
    <3>4. /\ reports \o <<Report(q, "held")>> \in Seq(ReportSet)
          /\ Append(reports, Report(q, "uploading")) \in Seq(ReportSet)
      BY <3>1, <3>3
    <3>5. reports \o <<Report(q, "uploading"), Report(q, "held")>> \in Seq(ReportSet)
      BY <3>1, <3>3, JoinOneOrTwo
    <3>6. QED
      BY <3>2, <3>3, <3>4, <3>5
  <2>3. QED
    BY <2>1, <2>2 DEF Typed, Busy
<1>11. CASE DispatchRecord
  <2>1. /\ pc = "record" /\ pc' = "dispatch"
        /\ dispatches' = Append(dispatches, [job |-> current, printing |-> FALSE, baseline |-> pending, aged |-> FALSE])
        /\ UNCHANGED <<printerVars, pending, reports, todo, cloud>>
    BY <1>11 DEF DispatchRecord
  <2>2. [job |-> current, printing |-> FALSE, baseline |-> pending, aged |-> FALSE] \in DispatchSet
    BY <1>b, <2>1, DispatchMake DEF Typed
  <2>3. dispatches' \in Seq(DispatchSet)
    BY <2>1, <2>2 DEF Typed
  <2>4. QED
    BY <2>1, <2>3 DEF Typed, Busy
<1>12. CASE CollectLink
  <2>1. PICK key \in Candidates : reports' = reports \o LinkReports(Oldest, key)
    BY <1>12 DEF CollectLink, LinkReports
  <2>2. /\ dispatches # <<>> /\ dispatches' = Tail(dispatches) /\ pc' = "flush"
        /\ UNCHANGED <<printerVars, pending, todo, cloud>>
    BY <1>12 DEF CollectLink, Collected
  <2>3. Oldest.job \in QueueJobs
    BY <2>2, OldestTyped, DispatchParts
  <2>4. reports' \in Seq(ReportSet)
    <3>1. \A st \in {"uploading", "printing", "completed", "held"} : Report(Oldest.job, st) \in ReportSet
      BY <2>3, ReportMake
    <3>2. reports \in Seq(ReportSet)
      BY DEF Typed
    <3>3. QED
      BY <2>1, <3>1, <3>2, JoinOneOrTwo DEF LinkReports
  <2>5. dispatches' \in Seq(DispatchSet)
    BY <2>2 DEF Typed
  <2>6. QED
    BY <2>2, <2>4, <2>5 DEF Typed, Busy
<1>13. CASE CollectPrinting
  <2>1. /\ dispatches # <<>> /\ dispatches' = [dispatches EXCEPT ![1] = [Oldest EXCEPT !.printing = TRUE]]
        /\ reports' = Append(reports, Report(Oldest.job, "printing")) /\ pc' = "flush"
        /\ UNCHANGED <<printerVars, pending, todo, cloud>>
    BY <1>13 DEF CollectPrinting, Collected, Oldest
  <2>2. [Oldest EXCEPT !.printing = TRUE] \in DispatchSet /\ Report(Oldest.job, "printing") \in ReportSet
    BY <2>1, OldestTyped, DispatchParts, ReportMake
  <2>3. dispatches' \in Seq(DispatchSet)
    BY <2>1, <2>2, MarkOldest DEF Typed
  <2>4. reports' \in Seq(ReportSet)
    BY <2>1, <2>2 DEF Typed
  <2>5. QED
    BY <2>1, <2>3, <2>4 DEF Typed, Busy
<1>14. CASE CollectGiveUp
  <2>1. /\ dispatches # <<>> /\ dispatches' = Tail(dispatches)
        /\ reports' = Append(reports, Report(Oldest.job, "held")) /\ pc' = "flush"
        /\ UNCHANGED <<printerVars, pending, todo, cloud>>
    BY <1>14 DEF CollectGiveUp, Collected
  <2>2. Report(Oldest.job, "held") \in ReportSet
    BY <2>1, OldestTyped, DispatchParts, ReportMake
  <2>3. dispatches' \in Seq(DispatchSet) /\ reports' \in Seq(ReportSet)
    BY <2>1, <2>2 DEF Typed
  <2>4. QED
    BY <2>1, <2>3 DEF Typed, Busy
<1>15. CASE CollectNothing
  BY <1>15 DEF CollectNothing, Collected, Typed, Busy
<1>16. CASE FlushOne
  <2>1. /\ reports # <<>> /\ Apply(Head(reports)) /\ reports' = Tail(reports)
        /\ UNCHANGED <<printerVars, trackVars, pc, todo, current>>
    BY <1>16 DEF FlushOne
  <2>2. reports' \in Seq(ReportSet)
    BY <2>1 DEF Typed
  <2>3. QED
    BY <2>1, <2>2, ApplyTyped DEF Typed, Busy
<1>17. CASE FlushRetry
  <2>1. /\ reports # <<>> /\ (Apply(Head(reports)) \/ UNCHANGED cloud)
        /\ pc' = "ack" /\ UNCHANGED <<printerVars, trackVars, reports, todo, current>>
    BY <1>17 DEF FlushRetry
  <2>2. QED
    BY <2>1, ApplyTyped DEF Typed, Busy
<1>18. CASE FlushDone \/ AckJobs
  BY <1>18 DEF FlushDone, AckJobs, Typed, Busy
<1>19. pending' \in {{}, Recovered} => pending' \subseteq 1 .. Len(prints)
  BY <1>a DEF Recovered, Typed
<1>20. CASE Rebuild
  BY <1>19, <1>20 DEF Rebuild, Typed, Busy
<1>21. CASE Crash
  BY <1>19, <1>21 DEF Crash, Typed, Busy
<1>22. QED
  BY <1>1, <1>2, <1>4, <1>5, <1>6, <1>7, <1>8, <1>9, <1>10, <1>11, <1>12, <1>13, <1>14, <1>15, <1>16,
     <1>17, <1>18, <1>20, <1>21 DEF Next, Commanded, PrintEnds, Heartbeat

-------------------------------------------------------------------------------
(* Nothing followed is dispatched again. *)

JobsOf(ds) == [i \in DOMAIN ds |-> ds[i].job]

\* No more jobs are followed at once than the guard has room for.
Room == Len(dispatches) <= GuardMax

\* The guard holds the jobs that are followed, and not the one being dispatched.
Tracking ==
  /\ Tracks(JobsOf(dispatches), guard)
  /\ pc = "record" => current \notin ToSet(guard)

\* The jobs of a list of dispatches, element by element.
LEMMA JobsOfTyped ==
  ASSUME NEW ds \in Seq(DispatchSet)
  PROVE  /\ JobsOf(ds) \in Seq(QueueJobs) /\ Len(JobsOf(ds)) = Len(ds)
         /\ \A i \in 1 .. Len(ds) : JobsOf(ds)[i] = ds[i].job
<1>1. Len(ds) \in Nat /\ DOMAIN ds = 1 .. Len(ds) /\ \A i \in 1 .. Len(ds) : ds[i].job \in QueueJobs
  BY DispatchJob
<1>2. JobsOf(ds) = [i \in 1 .. Len(ds) |-> ds[i].job]
  BY <1>1 DEF JobsOf
<1>3. QED
  BY <1>1, <1>2

\* The jobs of a list of dispatches that one is added to, taken from, or marked in.
LEMMA JobsOfSteps ==
  ASSUME NEW ds \in Seq(DispatchSet), NEW d \in DispatchSet
  PROVE  /\ JobsOf(Append(ds, d)) = Append(JobsOf(ds), d.job)
         /\ ds # <<>> => /\ JobsOf(Tail(ds)) = Tail(JobsOf(ds)) /\ Head(JobsOf(ds)) = ds[1].job
                         /\ JobsOf(ds) # <<>>
                         /\ d.job = ds[1].job => JobsOf([ds EXCEPT ![1] = d]) = JobsOf(ds)
<1>1. /\ JobsOf(ds) \in Seq(QueueJobs) /\ Len(JobsOf(ds)) = Len(ds)
      /\ \A i \in 1 .. Len(ds) : JobsOf(ds)[i] = ds[i].job
  BY JobsOfTyped
<1>2. JobsOf(Append(ds, d)) = Append(JobsOf(ds), d.job)
  <2> DEFINE a == Append(ds, d)
             b == Append(JobsOf(ds), d.job)
  <2>1. /\ a \in Seq(DispatchSet) /\ Len(a) = Len(ds) + 1 /\ a[Len(ds) + 1] = d
        /\ \A i \in 1 .. Len(ds) : a[i] = ds[i]
    OBVIOUS
  <2>2. /\ JobsOf(a) \in Seq(QueueJobs) /\ Len(JobsOf(a)) = Len(a)
        /\ \A i \in 1 .. Len(a) : JobsOf(a)[i] = a[i].job
    BY <2>1, JobsOfTyped
  <2>3. /\ b \in Seq(QueueJobs) /\ Len(b) = Len(ds) + 1 /\ b[Len(ds) + 1] = d.job
        /\ \A i \in 1 .. Len(ds) : b[i] = JobsOf(ds)[i]
    <3>1. d.job \in QueueJobs
      BY DispatchJob
    <3>2. QED
      BY <1>1, <3>1
  <2> HIDE DEF a, b
  <2>4. \A i \in 1 .. Len(ds) + 1 : i \in 1 .. Len(ds) \/ i = Len(ds) + 1
    OBVIOUS
  <2>5. JobsOf(a) = b
    BY <1>1, <2>1, <2>2, <2>3, <2>4, SeqEqual
  <2>6. QED
    BY <2>5 DEF a, b
<1>3. ASSUME ds # <<>> PROVE JobsOf(Tail(ds)) = Tail(JobsOf(ds))
  <2> DEFINE a == Tail(ds)
             b == Tail(JobsOf(ds))
  <2>1. /\ a \in Seq(DispatchSet) /\ Len(a) = Len(ds) - 1
        /\ \A i \in 1 .. Len(ds) - 1 : a[i] = ds[i + 1] /\ i + 1 \in 1 .. Len(ds)
    BY <1>3
  <2>2. /\ JobsOf(a) \in Seq(QueueJobs) /\ Len(JobsOf(a)) = Len(a)
        /\ \A i \in 1 .. Len(a) : JobsOf(a)[i] = a[i].job
    BY <2>1, JobsOfTyped
  <2>3. JobsOf(ds) # <<>>
    BY <1>1, <1>3
  <2>4. /\ b \in Seq(QueueJobs) /\ Len(b) = Len(ds) - 1
        /\ \A i \in 1 .. Len(ds) - 1 : b[i] = JobsOf(ds)[i + 1]
    BY <1>1, <2>3
  <2> HIDE DEF a, b
  <2>5. JobsOf(a) = b
    BY <1>1, <2>1, <2>2, <2>4, SeqEqual
  <2>6. QED
    BY <2>5 DEF a, b
<1>4. ASSUME ds # <<>> PROVE Head(JobsOf(ds)) = ds[1].job /\ JobsOf(ds) # <<>>
  <2>1. 1 \in 1 .. Len(ds)
    BY <1>4
  <2>2. QED
    BY <1>1, <2>1
<1>5. ASSUME ds # <<>>, d.job = ds[1].job PROVE JobsOf([ds EXCEPT ![1] = d]) = JobsOf(ds)
  <2> DEFINE a == [ds EXCEPT ![1] = d]
  <2>1. /\ a \in Seq(DispatchSet) /\ Len(a) = Len(ds) /\ a[1] = d
        /\ \A i \in 1 .. Len(ds) : i # 1 => a[i] = ds[i]
    BY <1>5, MarkOldest
  <2> HIDE DEF a
  <2>2. /\ JobsOf(a) \in Seq(QueueJobs) /\ Len(JobsOf(a)) = Len(a)
        /\ \A i \in 1 .. Len(a) : JobsOf(a)[i] = a[i].job
    BY <2>1, JobsOfTyped
  <2>3. JobsOf(a) = JobsOf(ds)
    BY <1>1, <1>5, <2>1, <2>2, SeqEqual
  <2>4. QED
    BY <2>3 DEF a
<1>6. QED
  BY <1>2, <1>3, <1>4, <1>5

\* Nothing is followed: any guard will do.
LEMMA TracksEmpty ==
  ASSUME NEW g \in Seq(QueueJobs), IsInjective(g), Len(g) <= GuardMax
  PROVE  Tracks(JobsOf(<<>>), g) /\ Tracks(JobsOf(<<>>), <<>>)
<1> DEFINE e == <<>>
<1>1. JobsOf(<<>>) = e
  BY DEF JobsOf
<1>2. ToSet(e) = {} /\ IsInjective(e) /\ e \in Seq(QueueJobs) /\ Len(e) = 0
  BY DEF ToSet, IsInjective
<1>3. Len(e) <= GuardMax
  BY <1>2, QueueDispatchAssumption
<1> HIDE DEF e
<1>4. Tracks(e, g) /\ Tracks(e, e)
  BY <1>2, <1>3 DEF Tracks
<1>5. QED
  BY <1>1, <1>4 DEF e

\* A fresh adapter follows nothing; neither does a fresh process.
LEMMA TracksNothing ==
  ASSUME NEW js, Tracks(js, guard)
  PROVE  Tracks(JobsOf(<<>>), guard) /\ Tracks(JobsOf(<<>>), <<>>)
<1>1. guard \in Seq(QueueJobs) /\ IsInjective(guard) /\ Len(guard) <= GuardMax
  BY DEF Tracks
<1>2. QED
  BY <1>1, TracksEmpty

\* The initial states.
LEMMA InitTracking == Init => Tracking
<1> SUFFICES ASSUME Init PROVE Tracking
  OBVIOUS
<1>1. dispatches = <<>> /\ guard = <<>> /\ pc = "idle"
  BY DEF Init
<1>2. guard \in Seq(QueueJobs) /\ IsInjective(guard) /\ Len(guard) <= GuardMax
  BY <1>1, QueueDispatchAssumption DEF IsInjective
<1>3. QED
  BY <1>1, <1>2, TracksEmpty DEF Tracking

\* Every step keeps track, as long as the guard has room for what is followed.
LEMMA StepTracking ==
  Typed /\ Tracking /\ [Next]_vars /\ Room' => Tracking'
<1> SUFFICES ASSUME Typed, Tracking, [Next]_vars, Room' PROVE Tracking'
  OBVIOUS
<1> USE DEF printerVars, trackVars, beatVars, envVars
<1>a. dispatches \in Seq(DispatchSet) /\ Tracks(JobsOf(dispatches), guard)
  BY DEF Typed, Tracking
<1>1. CASE UNCHANGED <<dispatches, guard>> /\ (pc' = "record" => pc = "record" /\ current' = current)
  BY <1>1 DEF Tracking
<1>2. ASSUME NEW d \in DispatchSet, dispatches # <<>>, d.job = Oldest.job,
             dispatches' = [dispatches EXCEPT ![1] = d], guard' = guard, pc' # "record"
      PROVE  Tracking'
  <2>1. JobsOf(dispatches') = JobsOf(dispatches)
    BY <1>2, <1>a, JobsOfSteps DEF Oldest
  <2>2. QED
    BY <1>2, <1>a, <2>1 DEF Tracking
<1>3. CASE Age
  <2>1. /\ dispatches # <<>> /\ dispatches' = [dispatches EXCEPT ![1] = [Oldest EXCEPT !.aged = TRUE]]
        /\ guard' = guard /\ pc' # "record"
    BY <1>3 DEF Age, Oldest
  <2>2. [Oldest EXCEPT !.aged = TRUE] \in DispatchSet /\ [Oldest EXCEPT !.aged = TRUE].job = Oldest.job
    BY <2>1, OldestTyped, DispatchParts
  <2>3. QED
    BY <1>2, <2>1, <2>2
<1>4. CASE CollectPrinting
  <2>1. /\ dispatches # <<>> /\ dispatches' = [dispatches EXCEPT ![1] = [Oldest EXCEPT !.printing = TRUE]]
        /\ guard' = guard /\ pc' # "record"
    BY <1>4 DEF CollectPrinting, Collected, Oldest
  <2>2. [Oldest EXCEPT !.printing = TRUE] \in DispatchSet /\ [Oldest EXCEPT !.printing = TRUE].job = Oldest.job
    BY <2>1, OldestTyped, DispatchParts
  <2>3. QED
    BY <1>2, <2>1, <2>2
<1>5. ASSUME NEW q \in QueueJobs, Dispatch(q) PROVE Tracking'
  <2>1. CASE DispatchPublish(q)
    <3>1. UNCHANGED <<dispatches, guard>> /\ current' = q /\ q \notin ToSet(guard)
      BY <2>1 DEF DispatchPublish, Guarded
    <3>2. QED
      BY <1>a, <3>1 DEF Tracking
  <2>2. CASE ~DispatchPublish(q)
    BY <1>1, <1>5, <2>2 DEF Dispatch, DispatchSkip, DispatchHeld
  <2>3. QED
    BY <2>1, <2>2
<1>6. CASE DispatchRecord
  <2> DEFINE d == [job |-> current, printing |-> FALSE, baseline |-> pending, aged |-> FALSE]
  <2>1. /\ pc = "record" /\ pc' = "dispatch" /\ dispatches' = Append(dispatches, d)
        /\ guard' = Remember(current)
    BY <1>6 DEF DispatchRecord
  <2>2. current \in QueueJobs /\ current \notin ToSet(guard) /\ pending \subseteq Nat
    BY <2>1 DEF Typed, Tracking
  <2>3. d \in DispatchSet /\ d.job = current
    BY <2>2, DispatchMake
  <2> HIDE DEF d
  <2>4. JobsOf(dispatches') = Append(JobsOf(dispatches), current)
    BY <1>a, <2>1, <2>3, JobsOfSteps
  <2>5. Len(JobsOf(dispatches)) + 1 <= GuardMax
    BY <1>a, <2>1, <2>3, JobsOfTyped DEF Room
  <2>6. Tracks(JobsOf(dispatches'), guard')
    BY <1>a, <2>1, <2>2, <2>4, <2>5, RememberTracks
  <2>7. QED
    BY <2>1, <2>6 DEF Tracking
<1>7. CASE CollectLink \/ CollectGiveUp
  <2>1. /\ dispatches # <<>> /\ dispatches' = Tail(dispatches) /\ guard' = Forget(Oldest.job) /\ pc' = "flush"
    BY <1>7 DEF CollectLink, CollectGiveUp, Collected
  <2>2. Oldest \in DispatchSet
    BY <2>1, OldestTyped
  <2>3. /\ JobsOf(dispatches') = Tail(JobsOf(dispatches)) /\ Head(JobsOf(dispatches)) = Oldest.job
        /\ JobsOf(dispatches) # <<>>
    BY <1>a, <2>1, <2>2, JobsOfSteps DEF Oldest
  <2>4. Tracks(Tail(JobsOf(dispatches)), Forget(Head(JobsOf(dispatches))))
    BY <1>a, <2>3, ForgetTracks
  <2>5. Tracks(JobsOf(dispatches'), guard')
    BY <2>1, <2>3, <2>4
  <2>6. QED
    BY <2>1, <2>5 DEF Tracking
<1>8. CASE Rebuild \/ Crash
  <2>1. dispatches' = <<>> /\ (guard' = guard \/ guard' = <<>>) /\ pc' = "idle"
    BY <1>8 DEF Rebuild, Crash
  <2>2. Tracks(JobsOf(dispatches'), guard')
    BY <1>a, <2>1, TracksNothing
  <2>3. QED
    BY <2>1, <2>2 DEF Tracking
<1>9. CASE UNCHANGED vars
  BY <1>1, <1>9 DEF vars
<1>10. ASSUME NEW q \in QueueJobs, Assign(q) \/ TakeUp(q) \/ Ignore(q) PROVE Tracking'
  BY <1>1, <1>10 DEF Assign, TakeUp, Ignore
<1>11. CASE StartForeign \/ (\E st \in {"FINISH", "FAILED"} : EndPrint(st))
  BY <1>1, <1>11 DEF StartForeign, EndPrint
<1>12. CASE Beat \/ CollectNothing \/ FlushOne \/ FlushRetry \/ FlushDone \/ AckJobs
  BY <1>1, <1>12 DEF Beat, CollectNothing, Collected, FlushOne, FlushRetry, FlushDone, AckJobs
<1>13. QED
  BY <1>3, <1>4, <1>5, <1>6, <1>7, <1>8, <1>9, <1>10, <1>11, <1>12 DEF Next, Commanded, PrintEnds, Heartbeat

\* However often the cloud repeats an assignment, and whatever outages, foreign prints,
\* slow starts, rebuilds and crashes there are, a job the hub still follows is never sent
\* to the printer again, as long as no more jobs are followed at once than the guard has
\* room for (MAX_DISPATCHED_QUEUE_JOBS).  The guard itself may overflow.
THEOREM NothingFollowedTwice == Spec /\ []Room => []TrackedOnce
<1>1. Typed /\ Tracking => TrackedOnce
  <2> SUFFICES ASSUME Typed, Tracking PROVE TrackedOnce
    OBVIOUS
  <2>1. /\ JobsOf(dispatches) \in Seq(QueueJobs) /\ Len(JobsOf(dispatches)) = Len(dispatches)
        /\ \A i \in 1 .. Len(dispatches) : JobsOf(dispatches)[i] = dispatches[i].job
        /\ DOMAIN dispatches = 1 .. Len(dispatches)
    BY JobsOfTyped DEF Typed
  <2>2. IsInjective(JobsOf(dispatches)) /\ ToSet(JobsOf(dispatches)) \subseteq ToSet(guard)
    BY DEF Tracking, Tracks
  <2>3. \A i \in DOMAIN dispatches : dispatches[i].job \in ToSet(JobsOf(dispatches))
    BY <2>1 DEF ToSet
  <2>4. pc = "record" => \A i \in DOMAIN dispatches : dispatches[i].job # current
    BY <2>2, <2>3 DEF Tracking
  <2>5. QED
    BY <2>2, <2>4 DEF TrackedOnce, JobsOf
<1>2. QED
  BY <1>1, InitTyped, StepTyped, InitTracking, StepTracking, PTL DEF Spec

-------------------------------------------------------------------------------
(* The cloud's transition map.  The reports that wait are a path of the map, from the
   state the cloud has the job in to the state the hub follows it in. *)

\* The reports rs, all of q, lead from c to e along the map.
Path(c, rs, e, q) ==
  /\ rs \in Seq(ReportSet)
  /\ \A i \in 1 .. Len(rs) :
       rs[i].job = q /\ <<IF i = 1 THEN c ELSE rs[i - 1].state, rs[i].state>> \in Allowed
  /\ e = IF rs = <<>> THEN c ELSE rs[Len(rs)].state

\* Where the hub has the job of a dispatch.
Stage(d) == IF d.printing THEN "printing" ELSE "uploading"

\* Without outages there is at most one job under way, and the hub and the cloud agree
\* on it but for the reports of this beat.
OneUnderWay == \A q, r \in QueueJobs : cloud[q] \in InProgress /\ cloud[r] \in InProgress => q = r

WaitingPath ==
  reports # <<>> =>
    \E q \in QueueJobs, e \in {"uploading", "printing", "completed", "held"} : Path(cloud[q], reports, e, q)

FollowedPath ==
  dispatches # <<>> => Path(cloud[Oldest.job], reports, Stage(Oldest), Oldest.job)

AssignedOnly ==
  pc = "dispatch" /\ todo # {} =>
    dispatches = <<>> /\ reports = <<>> /\ \A q \in todo : cloud[q] = "assigned"

Publishing ==
  pc = "record" => todo = {} /\ dispatches = <<>> /\ Path(cloud[current], reports, "uploading", current)

Mapped ==
  /\ OneUnderWay /\ Len(dispatches) <= 1
  /\ WaitingPath /\ FollowedPath /\ AssignedOnly /\ Publishing
  /\ pc \in {"idle", "ack"} => reports = <<>>

\* The map, read off: where it starts, and the steps collect() takes.
LEMMA MapFacts ==
  /\ \A a, b : <<a, b>> \in Allowed => a \in InProgress
  /\ <<"assigned", "uploading">> \in Allowed /\ <<"assigned", "held">> \in Allowed
  /\ <<"uploading", "printing">> \in Allowed /\ <<"uploading", "held">> \in Allowed
  /\ <<"printing", "completed">> \in Allowed /\ <<"printing", "held">> \in Allowed
BY DEF Allowed, InProgress

\* No reports, no way.
LEMMA PathEmpty == \A c, e, q : Path(c, <<>>, e, q) <=> c = e
BY DEF Path

\* A path goes on.
LEMMA PathAppend ==
  ASSUME NEW c, NEW rs, NEW e, NEW q, Path(c, rs, e, q),
         NEW r \in ReportSet, r.job = q, <<e, r.state>> \in Allowed
  PROVE  Path(c, Append(rs, r), r.state, q)
<1> DEFINE a == Append(rs, r)
<1>1. /\ rs \in Seq(ReportSet) /\ Len(rs) \in Nat
      /\ \A i \in 1 .. Len(rs) :
           rs[i].job = q /\ <<IF i = 1 THEN c ELSE rs[i - 1].state, rs[i].state>> \in Allowed
      /\ e = IF rs = <<>> THEN c ELSE rs[Len(rs)].state
  BY DEF Path
<1>2. /\ a \in Seq(ReportSet) /\ Len(a) = Len(rs) + 1 /\ a # <<>> /\ a[Len(rs) + 1] = r
      /\ \A i \in 1 .. Len(rs) : a[i] = rs[i]
  <2>1. rs \in Seq(ReportSet)
    BY <1>1
  <2>2. QED
    BY <2>1, AppendProperties
<1> HIDE DEF a
<1>3. ASSUME NEW i \in 1 .. Len(a)
      PROVE  a[i].job = q /\ <<IF i = 1 THEN c ELSE a[i - 1].state, a[i].state>> \in Allowed
  <2>1. CASE i \in 1 .. Len(rs)
    <3>1. a[i] = rs[i] /\ (i # 1 => a[i - 1] = rs[i - 1])
      BY <1>1, <1>2, <2>1
    <3>2. QED
      BY <1>1, <2>1, <3>1
  <2>2. CASE i = Len(rs) + 1
    <3>1. a[i] = r
      BY <1>2, <2>2
    <3>2. CASE rs = <<>>
      <4>1. i = 1 /\ e = c
        BY <1>1, <2>2, <3>2
      <4>2. QED
        BY <3>1, <4>1
    <3>3. CASE rs # <<>>
      <4>1. i # 1 /\ i - 1 = Len(rs) /\ Len(rs) \in 1 .. Len(rs) /\ e = rs[Len(rs)].state
        BY <1>1, <2>2, <3>3
      <4>2. a[i - 1] = rs[Len(rs)]
        BY <1>2, <4>1
      <4>3. QED
        BY <3>1, <4>1, <4>2
    <3>4. QED
      BY <3>2, <3>3
  <2>3. QED
    BY <1>1, <1>2, <2>1, <2>2
<1>4. Path(c, a, r.state, q)
  BY <1>2, <1>3 DEF Path
<1>5. QED
  BY <1>4 DEF a

\* The first report of a path is a step of the map, and the rest is a path.
LEMMA PathHead ==
  ASSUME NEW c, NEW rs, NEW e, NEW q, Path(c, rs, e, q), rs # <<>>
  PROVE  /\ Head(rs) \in ReportSet /\ Head(rs).job = q /\ <<c, Head(rs).state>> \in Allowed
         /\ Path(Head(rs).state, Tail(rs), e, q)
<1> DEFINE t == Tail(rs)
           h == Head(rs)
<1>1. /\ rs \in Seq(ReportSet) /\ Len(rs) \in Nat /\ Len(rs) # 0
      /\ \A i \in 1 .. Len(rs) :
           rs[i].job = q /\ <<IF i = 1 THEN c ELSE rs[i - 1].state, rs[i].state>> \in Allowed
      /\ e = rs[Len(rs)].state
  BY DEF Path
<1>2. h \in ReportSet /\ h = rs[1] /\ 1 \in 1 .. Len(rs)
  BY <1>1
<1>3. /\ t \in Seq(ReportSet) /\ Len(t) = Len(rs) - 1
      /\ \A i \in 1 .. Len(rs) - 1 : t[i] = rs[i + 1] /\ i + 1 \in 1 .. Len(rs) /\ i + 1 # 1
      /\ t = <<>> <=> Len(rs) = 1
  <2>1. t \in Seq(ReportSet) /\ Len(t) = Len(rs) - 1
    BY <1>1
  <2>2. \A i \in 1 .. Len(rs) - 1 : t[i] = rs[i + 1]
    BY <1>1
  <2>3. \A i \in 1 .. Len(rs) - 1 : i + 1 \in 1 .. Len(rs) /\ i + 1 # 1
    BY <1>1
  <2> HIDE DEF t
  <2>4. t = <<>> <=> Len(rs) = 1
    BY <1>1, <2>1
  <2>5. QED
    BY <2>1, <2>2, <2>3, <2>4
<1> HIDE DEF t, h
<1>4. h.job = q /\ <<c, h.state>> \in Allowed
  BY <1>1, <1>2
<1>5. ASSUME NEW i \in 1 .. Len(t)
      PROVE  t[i].job = q /\ <<IF i = 1 THEN h.state ELSE t[i - 1].state, t[i].state>> \in Allowed
  <2>1. i \in 1 .. Len(rs) - 1 /\ i \in Int
    BY <1>3
  <2>2. t[i] = rs[i + 1] /\ i + 1 \in 1 .. Len(rs) /\ i + 1 # 1 /\ (i + 1) - 1 = i
    BY <1>3, <2>1
  <2>3. rs[i + 1].job = q /\ <<rs[i].state, rs[i + 1].state>> \in Allowed
    BY <1>1, <2>2
  <2>4. CASE i = 1
    BY <1>2, <2>2, <2>3, <2>4
  <2>5. CASE i # 1
    <3>1. i - 1 \in 1 .. Len(rs) - 1 /\ (i - 1) + 1 = i
      BY <1>1, <2>1, <2>5
    <3>2. t[i - 1] = rs[i]
      BY <1>3, <3>1
    <3>3. QED
      BY <2>2, <2>3, <2>5, <3>2
  <2>6. QED
    BY <2>4, <2>5
<1>6. e = IF t = <<>> THEN h.state ELSE t[Len(t)].state
  <2>1. CASE t = <<>>
    BY <1>1, <1>2, <1>3, <2>1
  <2>2. CASE t # <<>>
    <3>1. Len(t) \in 1 .. Len(rs) - 1 /\ Len(t) + 1 = Len(rs)
      BY <1>1, <1>3, <2>2
    <3>2. t[Len(t)] = rs[Len(rs)]
      BY <1>3, <3>1
    <3>3. QED
      BY <1>1, <2>2, <3>2
  <2>3. QED
    BY <2>1, <2>2
<1>7. Path(h.state, t, e, q)
  BY <1>3, <1>5, <1>6 DEF Path
<1>8. QED
  BY <1>2, <1>4, <1>7 DEF t, h

\* What is under way for the hub is under way for the cloud.
LEMMA PathUnderWay ==
  ASSUME NEW c, NEW rs, NEW e, NEW q, Path(c, rs, e, q), rs # <<>> \/ e \in InProgress
  PROVE  c \in InProgress
<1>1. CASE rs # <<>>
  BY <1>1, PathHead, MapFacts
<1>2. CASE rs = <<>>
  BY <1>2 DEF Path
<1>3. QED
  BY <1>1, <1>2

\* The initial states.
LEMMA InitMapped == Init => Mapped /\ MapRespected
BY DEF Init, Mapped, OneUnderWay, WaitingPath, FollowedPath, AssignedOnly, Publishing, InProgress, MapRespected

\* A job that is assigned is the only one under way, so nothing else is to be dispatched.
LEMMA OnlyAssigned ==
  ASSUME Typed, Mapped, pc = "dispatch", NEW q \in todo
  PROVE  q \in QueueJobs /\ dispatches = <<>> /\ reports = <<>> /\ cloud[q] = "assigned" /\ todo \ {q} = {}
<1>1. q \in QueueJobs /\ dispatches = <<>> /\ reports = <<>> /\ \A r \in todo : cloud[r] = "assigned" /\ r \in QueueJobs
  BY DEF Typed, Mapped, AssignedOnly
<1>2. \A r \in todo : r = q
  BY <1>1 DEF Mapped, OneUnderWay, InProgress
<1>3. QED
  BY <1>1, <1>2

\* When the cloud knows of no job under way, neither does the hub.
LEMMA NothingUnderWay ==
  ASSUME Typed, Mapped, \A r \in QueueJobs : cloud[r] \notin InProgress
  PROVE  reports = <<>> /\ dispatches = <<>> /\ pc # "record" /\ (pc = "dispatch" => todo = {})
<1>1. reports = <<>>
  BY PathUnderWay DEF Mapped, WaitingPath
<1>2. dispatches = <<>>
  <2>1. SUFFICES ASSUME dispatches # <<>> PROVE FALSE
    OBVIOUS
  <2>2. Oldest.job \in QueueJobs /\ Path(cloud[Oldest.job], reports, Stage(Oldest), Oldest.job)
    BY <2>1, OldestTyped, DispatchJob DEF Mapped, FollowedPath
  <2>3. Stage(Oldest) \in InProgress
    BY DEF Stage, InProgress
  <2>4. QED
    BY <2>2, <2>3, PathUnderWay
<1>3. pc # "record"
  <2>1. SUFFICES ASSUME pc = "record" PROVE FALSE
    OBVIOUS
  <2>2. current \in QueueJobs /\ Path(cloud[current], reports, "uploading", current)
    BY <2>1 DEF Mapped, Publishing, Typed
  <2>3. QED
    BY <2>2, PathUnderWay DEF InProgress
<1>4. pc = "dispatch" => todo = {}
  BY OnlyAssigned DEF InProgress
<1>5. QED
  BY <1>1, <1>2, <1>3, <1>4

\* A job that is collected: its reports go on from where the hub has it.
LEMMA CollectPath ==
  ASSUME Typed, Mapped, dispatches # <<>>, NEW st \in {"printing", "completed", "held"},
         <<Stage(Oldest), st>> \in Allowed
  PROVE  /\ Oldest.job \in QueueJobs /\ Tail(dispatches) = <<>>
         /\ Report(Oldest.job, st) \in ReportSet
         /\ Path(cloud[Oldest.job], Append(reports, Report(Oldest.job, st)), st, Oldest.job)
<1>1. Oldest.job \in QueueJobs
  BY OldestTyped, DispatchJob
<1>2. /\ Report(Oldest.job, st) \in ReportSet /\ Report(Oldest.job, st).job = Oldest.job
      /\ Report(Oldest.job, st).state = st
  BY <1>1, ReportMake
<1>3. Path(cloud[Oldest.job], reports, Stage(Oldest), Oldest.job)
  BY DEF Mapped, FollowedPath
<1>4. Path(cloud[Oldest.job], Append(reports, Report(Oldest.job, st)), st, Oldest.job)
  BY <1>2, <1>3, PathAppend
<1>5. Tail(dispatches) = <<>>
  <2>1. dispatches \in Seq(DispatchSet) /\ Len(dispatches) <= 1
    BY DEF Typed, Mapped
  <2>2. QED
    BY <2>1
<1>6. QED
  BY <1>1, <1>2, <1>4, <1>5

\* Every step keeps the hub and the cloud on the map, unless reports can be lost.
LEMMA StepMapped ==
  ASSUME "outage" \notin Weather
  PROVE  Typed /\ Mapped /\ MapRespected /\ [Next]_vars => Mapped' /\ MapRespected'
<1> SUFFICES ASSUME Typed, Mapped, MapRespected, [Next]_vars PROVE Mapped' /\ MapRespected'
  OBVIOUS
<1> USE DEF printerVars, trackVars, beatVars, envVars
<1>a. /\ OneUnderWay /\ WaitingPath /\ FollowedPath /\ AssignedOnly /\ Publishing
      /\ Len(dispatches) <= 1 /\ (pc \in {"idle", "ack"} => reports = <<>>)
      /\ dispatches \in Seq(DispatchSet) /\ reports \in Seq(ReportSet)
  BY DEF Mapped, Typed
<1>b. Len(<<>>) <= 1
  OBVIOUS
<1>c. Stage(Oldest) \in InProgress
  BY DEF Stage, InProgress
<1>1. CASE UNCHANGED <<cloud, dispatches, reports, pc, todo, current, rejected>>
  BY <1>1 DEF Mapped, OneUnderWay, WaitingPath, FollowedPath, AssignedOnly, Publishing, Oldest, MapRespected
<1>2. ASSUME NEW q \in QueueJobs, Assign(q) PROVE Mapped' /\ MapRespected'
  <2>1. /\ \A r \in QueueJobs : cloud[r] \notin InProgress
        /\ cloud' = [cloud EXCEPT ![q] = "assigned"]
        /\ UNCHANGED <<dispatches, reports, pc, todo, current, rejected>>
    BY <1>2 DEF Assign
  <2>2. reports = <<>> /\ dispatches = <<>> /\ pc # "record" /\ (pc = "dispatch" => todo = {})
    BY <2>1, NothingUnderWay
  <2>3. OneUnderWay'
    BY <2>1 DEF OneUnderWay, Typed
  <2>4. QED
    BY <1>b, <2>1, <2>2, <2>3
       DEF Mapped, WaitingPath, FollowedPath, AssignedOnly, Publishing, MapRespected
<1>3. ASSUME NEW q \in QueueJobs, TakeUp(q) \/ Ignore(q) PROVE Mapped' /\ MapRespected'
  BY <1>1, <1>3 DEF TakeUp, Ignore
<1>4. CASE StartForeign \/ (\E st \in {"FINISH", "FAILED"} : EndPrint(st))
  BY <1>1, <1>4 DEF StartForeign, EndPrint
<1>5. CASE Age
  <2> DEFINE d == [Oldest EXCEPT !.aged = TRUE]
  <2>1. /\ dispatches # <<>> /\ dispatches' = [dispatches EXCEPT ![1] = d]
        /\ UNCHANGED <<cloud, reports, pc, todo, current, rejected>> /\ pc = "idle"
    BY <1>5 DEF Age, Oldest
  <2>2. d \in DispatchSet /\ d.job = Oldest.job /\ d.printing = Oldest.printing
    BY <2>1, OldestTyped, DispatchParts
  <2> HIDE DEF d
  <2>3. Len(dispatches') = Len(dispatches) /\ Oldest' = d
    BY <1>a, <2>1, <2>2, MarkOldest DEF Oldest
  <2>4. FollowedPath'
    BY <1>a, <2>1, <2>2, <2>3 DEF FollowedPath, Stage
  <2>5. QED
    BY <1>a, <2>1, <2>3, <2>4
       DEF Mapped, OneUnderWay, WaitingPath, AssignedOnly, Publishing, MapRespected
<1>6. CASE Beat
  <2>1. /\ pc = "idle" /\ pc' = "dispatch" /\ todo' = {q \in QueueJobs : cloud[q] = "assigned"}
        /\ UNCHANGED <<cloud, dispatches, reports, rejected>>
    BY <1>6 DEF Beat
  <2>2. reports = <<>>
    BY <1>a, <2>1
  <2>3. ASSUME dispatches # <<>>, NEW q \in QueueJobs, cloud[q] = "assigned" PROVE FALSE
    <3>1. Oldest.job \in QueueJobs /\ cloud[Oldest.job] = Stage(Oldest)
      BY <1>a, <2>2, <2>3, OldestTyped, DispatchJob, PathEmpty DEF FollowedPath
    <3>2. Oldest.job = q
      BY <1>a, <1>c, <2>3, <3>1 DEF OneUnderWay, InProgress
    <3>3. QED
      BY <2>3, <3>1, <3>2 DEF Stage
  <2>4. AssignedOnly'
    BY <2>1, <2>2, <2>3 DEF AssignedOnly
  <2>5. QED
    BY <1>a, <2>1, <2>2, <2>4
       DEF Mapped, OneUnderWay, WaitingPath, FollowedPath, Publishing, Oldest, MapRespected
<1>7. ASSUME NEW q \in QueueJobs, Dispatch(q) PROVE Mapped' /\ MapRespected'
  <2>1. /\ pc = "dispatch" /\ q \in todo /\ todo' = todo \ {q}
        /\ UNCHANGED <<cloud, dispatches, rejected>>
    BY <1>7 DEF Dispatch, DispatchSkip, DispatchHeld, DispatchPublish
  <2>2. dispatches = <<>> /\ reports = <<>> /\ cloud[q] = "assigned" /\ todo \ {q} = {}
    BY <2>1, OnlyAssigned
  <2>3. /\ Report(q, "held") \in ReportSet /\ Report(q, "held").job = q /\ Report(q, "held").state = "held"
        /\ Report(q, "uploading") \in ReportSet /\ Report(q, "uploading").job = q
        /\ Report(q, "uploading").state = "uploading"
    BY ReportMake
  <2>4. Path("assigned", <<>>, "assigned", q)
    BY PathEmpty
  <2>5. Path("assigned", Append(<<>>, Report(q, "uploading")), "uploading", q)
    BY <2>3, <2>4, PathAppend, MapFacts
  <2>6. Path("assigned", Append(<<>>, Report(q, "held")), "held", q)
    BY <2>3, <2>4, PathAppend, MapFacts
  <2>7. Path("assigned", Append(Append(<<>>, Report(q, "uploading")), Report(q, "held")), "held", q)
    BY <2>3, <2>5, PathAppend, MapFacts
  <2>8. <<>> \in Seq(ReportSet)
    OBVIOUS
  <2>9. ASSUME NEW e \in {"uploading", "held"}, Path("assigned", reports', e, q) PROVE WaitingPath'
    BY <2>1, <2>2, <2>9 DEF WaitingPath
  <2>10. OneUnderWay' /\ FollowedPath' /\ AssignedOnly' /\ MapRespected' /\ Len(dispatches') <= 1
    BY <1>a, <1>b, <2>1, <2>2 DEF OneUnderWay, FollowedPath, AssignedOnly, MapRespected
  <2>11. CASE DispatchSkip(q)
    <3>1. reports' = <<>> /\ pc' = "dispatch"
      BY <2>2, <2>11 DEF DispatchSkip
    <3>2. QED
      BY <2>10, <3>1 DEF Mapped, WaitingPath, Publishing
  <2>12. CASE DispatchHeld(q, <<Report(q, "held")>>)
    <3>1. reports' = Append(<<>>, Report(q, "held")) /\ pc' = "dispatch"
      BY <2>2, <2>3, <2>8, <2>12, JoinOneOrTwo DEF DispatchHeld
    <3>2. WaitingPath'
      BY <2>6, <2>9, <3>1
    <3>3. QED
      BY <2>10, <3>1, <3>2 DEF Mapped, Publishing
  <2>13. CASE DispatchHeld(q, <<Report(q, "uploading"), Report(q, "held")>>)
    <3>1. reports' = Append(Append(<<>>, Report(q, "uploading")), Report(q, "held")) /\ pc' = "dispatch"
      BY <2>2, <2>3, <2>8, <2>13, JoinOneOrTwo DEF DispatchHeld
    <3>2. WaitingPath'
      BY <2>7, <2>9, <3>1
    <3>3. QED
      BY <2>10, <3>1, <3>2 DEF Mapped, Publishing
  <2>14. CASE DispatchPublish(q)
    <3>1. reports' = Append(<<>>, Report(q, "uploading")) /\ pc' = "record" /\ current' = q
      BY <2>2, <2>14 DEF DispatchPublish
    <3>2. WaitingPath'
      BY <2>5, <2>9, <3>1
    <3>3. Publishing'
      BY <2>1, <2>2, <2>5, <3>1 DEF Publishing
    <3>4. QED
      BY <2>10, <3>1, <3>2, <3>3 DEF Mapped
  <2>15. QED
    BY <1>7, <2>11, <2>12, <2>13, <2>14 DEF Dispatch
<1>8. CASE DispatchRecord
  <2> DEFINE d == [job |-> current, printing |-> FALSE, baseline |-> pending, aged |-> FALSE]
  <2>1. /\ pc = "record" /\ pc' = "dispatch" /\ dispatches' = Append(dispatches, d)
        /\ UNCHANGED <<cloud, reports, todo, rejected>>
    BY <1>8 DEF DispatchRecord
  <2>2. todo = {} /\ dispatches = <<>> /\ Path(cloud[current], reports, "uploading", current)
    BY <1>a, <2>1 DEF Publishing
  <2>3. d.job = current /\ Stage(d) = "uploading"
    BY DEF Stage
  <2> HIDE DEF d
  <2>4. Len(dispatches') = 1 /\ Oldest' = d
    BY <2>1, <2>2 DEF Oldest
  <2>5. FollowedPath'
    <3>1. Stage(Oldest)' = "uploading" /\ (Oldest.job)' = current
      BY <2>3, <2>4 DEF Stage
    <3>2. QED
      BY <2>1, <2>2, <3>1 DEF FollowedPath
  <2>6. QED
    BY <1>a, <2>1, <2>2, <2>4, <2>5
       DEF Mapped, OneUnderWay, WaitingPath, AssignedOnly, Publishing, MapRespected
<1>9. CASE CollectLink
  <2>1. PICK key \in Candidates : reports' = reports \o LinkReports(Oldest, key)
    BY <1>9 DEF CollectLink, LinkReports
  <2>2. /\ dispatches # <<>> /\ dispatches' = Tail(dispatches) /\ pc' = "flush"
        /\ UNCHANGED <<todo, cloud, rejected>>
    BY <1>9 DEF CollectLink, Collected
  <2> DEFINE q == Oldest.job
  <2>3. q \in QueueJobs /\ dispatches' = <<>>
    BY <2>2, CollectPath, MapFacts DEF Stage
  <2>4. \A st \in {"printing", "completed", "held"} :
          Report(q, st) \in ReportSet /\ Report(q, st).job = q /\ Report(q, st).state = st
    BY <2>3, ReportMake
  <2>5. WaitingPath'
    <3>1. CASE reports' = Append(reports, Report(q, "held"))
      <4>1. Path(cloud[q], reports', "held", q)
        BY <2>2, <3>1, CollectPath, MapFacts DEF Stage
      <4>2. QED
        BY <2>2, <2>3, <4>1 DEF WaitingPath
    <3>2. CASE Oldest.printing /\ reports' = Append(reports, Report(q, "completed"))
      <4>1. Path(cloud[q], reports', "completed", q)
        BY <2>2, <3>2, CollectPath, MapFacts DEF Stage
      <4>2. QED
        BY <2>2, <2>3, <4>1 DEF WaitingPath
    <3>3. CASE /\ ~Oldest.printing
               /\ reports' = Append(Append(reports, Report(q, "printing")), Report(q, "completed"))
      <4>1. Path(cloud[q], Append(reports, Report(q, "printing")), "printing", q)
        BY <2>2, <3>3, CollectPath, MapFacts DEF Stage
      <4>2. Path(cloud[q], reports', "completed", q)
        BY <2>4, <3>3, <4>1, PathAppend, MapFacts
      <4>3. QED
        BY <2>2, <2>3, <4>2 DEF WaitingPath
    <3>4. \/ reports' = reports \o <<Report(q, "held")>>
          \/ Oldest.printing /\ reports' = reports \o <<Report(q, "completed")>>
          \/ ~Oldest.printing /\ reports' = reports \o <<Report(q, "printing"), Report(q, "completed")>>
      BY <2>1 DEF LinkReports
    <3> HIDE DEF q
    <3>5. /\ reports \o <<Report(q, "held")>> = Append(reports, Report(q, "held"))
          /\ reports \o <<Report(q, "completed")>> = Append(reports, Report(q, "completed"))
          /\ reports \o <<Report(q, "printing"), Report(q, "completed")>>
               = Append(Append(reports, Report(q, "printing")), Report(q, "completed"))
      BY <1>a, <2>4, JoinOneOrTwo
    <3>6. QED
      BY <3>1, <3>2, <3>3, <3>4, <3>5
  <2>6. QED
    BY <1>a, <1>b, <2>2, <2>3, <2>5 DEF Mapped, OneUnderWay, FollowedPath, AssignedOnly, Publishing, MapRespected
<1>10. CASE CollectGiveUp
  <2>1. /\ dispatches # <<>> /\ dispatches' = Tail(dispatches) /\ pc' = "flush"
        /\ reports' = Append(reports, Report(Oldest.job, "held"))
        /\ UNCHANGED <<todo, cloud, rejected>>
    BY <1>10 DEF CollectGiveUp, Collected
  <2>2. /\ Oldest.job \in QueueJobs /\ dispatches' = <<>>
        /\ Path(cloud[Oldest.job], reports', "held", Oldest.job)
    BY <2>1, CollectPath, MapFacts DEF Stage
  <2>3. WaitingPath'
    BY <2>1, <2>2 DEF WaitingPath
  <2>4. QED
    BY <1>a, <1>b, <2>1, <2>2, <2>3 DEF Mapped, OneUnderWay, FollowedPath, AssignedOnly, Publishing, MapRespected
<1>11. CASE CollectPrinting
  <2> DEFINE d == [Oldest EXCEPT !.printing = TRUE]
  <2>1. /\ dispatches # <<>> /\ dispatches' = [dispatches EXCEPT ![1] = d] /\ pc' = "flush" /\ ~Oldest.printing
        /\ reports' = Append(reports, Report(Oldest.job, "printing"))
        /\ UNCHANGED <<todo, cloud, rejected>>
    BY <1>11 DEF CollectPrinting, Collected, Oldest, Observed
  <2>2. /\ Oldest.job \in QueueJobs /\ Path(cloud[Oldest.job], reports', "printing", Oldest.job)
    BY <2>1, CollectPath, MapFacts DEF Stage
  <2>3. d \in DispatchSet /\ d.job = Oldest.job /\ d.printing
    BY <2>1, OldestTyped, DispatchParts
  <2> HIDE DEF d
  <2>4. Len(dispatches') = Len(dispatches) /\ Oldest' = d
    BY <1>a, <2>1, <2>3, MarkOldest DEF Oldest
  <2>5. WaitingPath'
    BY <2>1, <2>2 DEF WaitingPath
  <2>6. FollowedPath'
    <3>1. Stage(Oldest)' = "printing" /\ (Oldest.job)' = Oldest.job
      BY <2>3, <2>4 DEF Stage
    <3>2. QED
      BY <2>1, <2>2, <3>1 DEF FollowedPath
  <2>7. QED
    BY <1>a, <2>1, <2>4, <2>5, <2>6 DEF Mapped, OneUnderWay, AssignedOnly, Publishing, MapRespected
<1>12. CASE CollectNothing
  <2>1. pc' = "flush" /\ UNCHANGED <<todo, cloud, rejected, dispatches, reports>>
    BY <1>12 DEF CollectNothing, Collected
  <2>2. QED
    BY <1>a, <2>1 DEF Mapped, OneUnderWay, WaitingPath, FollowedPath, AssignedOnly, Publishing, Oldest, MapRespected
<1>13. CASE FlushOne
  <2> DEFINE h == Head(reports)
  <2>1. /\ pc = "flush" /\ reports # <<>> /\ Apply(h) /\ reports' = Tail(reports)
        /\ UNCHANGED <<dispatches, pc, todo>>
    BY <1>13 DEF FlushOne
  <2>2. PICK q \in QueueJobs, e \in {"uploading", "printing", "completed", "held"} : Path(cloud[q], reports, e, q)
    BY <1>a, <2>1 DEF WaitingPath
  <2>3. /\ h \in ReportSet /\ h.job = q /\ <<cloud[q], h.state>> \in Allowed
        /\ Path(h.state, reports', e, q)
    BY <2>1, <2>2, PathHead
  <2>4. cloud' = [cloud EXCEPT ![q] = h.state] /\ rejected' = rejected
    BY <2>1, <2>3 DEF Apply
  <2>5. cloud[q] \in InProgress
    BY <2>3, MapFacts
  <2>6. cloud'[q] = h.state /\ \A r \in QueueJobs : r # q => cloud'[r] = cloud[r]
    BY <2>4 DEF Typed
  <2> HIDE DEF h
  <2>7. OneUnderWay'
    BY <1>a, <2>5, <2>6 DEF OneUnderWay
  <2>8. WaitingPath'
    BY <2>3, <2>6 DEF WaitingPath
  <2>9. FollowedPath'
    <3>1. SUFFICES ASSUME dispatches # <<>>
                   PROVE  Path(cloud'[Oldest.job], reports', Stage(Oldest), Oldest.job)
      BY <2>1 DEF FollowedPath, Oldest, Stage
    <3>2. Path(cloud[Oldest.job], reports, Stage(Oldest), Oldest.job)
      BY <1>a, <3>1 DEF FollowedPath
    <3>3. h.job = Oldest.job /\ Path(h.state, reports', Stage(Oldest), Oldest.job)
      BY <2>1, <3>2, PathHead DEF h
    <3>4. QED
      BY <2>3, <2>6, <3>3
  <2>10. QED
    BY <1>a, <2>1, <2>4, <2>7, <2>8, <2>9 DEF Mapped, AssignedOnly, Publishing, MapRespected
<1>14. CASE FlushDone \/ AckJobs
  <2>1. reports = <<>> /\ pc' \in {"ack", "idle"} /\ UNCHANGED <<todo, cloud, rejected, dispatches, reports>>
    BY <1>a, <1>14 DEF FlushDone, AckJobs
  <2>2. QED
    BY <1>a, <2>1 DEF Mapped, OneUnderWay, WaitingPath, FollowedPath, AssignedOnly, Publishing, Oldest, MapRespected
<1>15. CASE Rebuild \/ Crash
  <2>1. reports' = <<>> /\ dispatches' = <<>> /\ pc' = "idle" /\ UNCHANGED <<cloud, rejected>>
    BY <1>a, <1>15 DEF Rebuild, Crash
  <2>2. QED
    BY <1>a, <1>b, <2>1 DEF Mapped, OneUnderWay, WaitingPath, FollowedPath, AssignedOnly, Publishing, MapRespected
<1>16. CASE UNCHANGED vars
  BY <1>1, <1>16 DEF vars
<1>17. ~FlushRetry
  BY DEF FlushRetry
<1>18. QED
  BY <1>2, <1>3, <1>4, <1>5, <1>6, <1>7, <1>8, <1>9, <1>10, <1>11, <1>12, <1>13, <1>14, <1>15, <1>16, <1>17
     DEF Next, Commanded, PrintEnds, Heartbeat

\* As long as status reports get through when heartbeats do, every report the hub sends
\* is one the cloud's map accepts, whatever foreign prints, slow starts, rebuilds and
\* crashes there are.
THEOREM EveryReportFits == ASSUME "outage" \notin Weather PROVE Spec => []MapRespected
<1>1. Typed /\ Mapped /\ MapRespected /\ [Next]_vars => Mapped' /\ MapRespected'
  BY StepMapped
<1>2. QED
  BY <1>1, InitTyped, StepTyped, InitMapped, PTL DEF Spec

-------------------------------------------------------------------------------
(* Prints.  The hub does not know whose print it sees; it takes the one new record for
   the job it follows.  On a printer that only the hub starts, that is right: whatever
   runs or is about to run belongs to the one job under way. *)

Running == prints[Len(prints)]
Engaged == flight # {} \/ Busy
Printed(q) == \E i \in DOMAIN prints : prints[i].owner = q /\ prints[i].done
NewRecords == pending \ Oldest.baseline

\* The job q is being dispatched, is followed, or was when the adapter was rebuilt: then
\* the cloud waits for its end for good and assigns nothing else.
Holder(q) ==
  \/ pc = "record" /\ current = q
  \/ dispatches # <<>> /\ Oldest.job = q
  \/ pc # "record" /\ dispatches = <<>> /\ reports = <<>> /\ cloud[q] \in {"uploading", "printing"}

Owned ==
  Engaged => \E q \in QueueJobs :
    flight \subseteq {q} /\ (Busy => Running.owner = q /\ flight = {}) /\ Holder(q)

\* New records are the followed job's, and its print is over when there is one.
OwnRecords ==
  dispatches # <<>> =>
    /\ NewRecords # {} => ~Engaged
    /\ \A k \in NewRecords : prints[k].owner = Oldest.job
    /\ Oldest.aged => flight = {}

Truthful == \A i \in DOMAIN reports : reports[i].state = "completed" => Printed(reports[i].job)

Mine == Owned /\ OwnRecords /\ Truthful /\ (Busy => ~Running.done)

\* The initial states.
LEMMA InitMine == Init => Mine /\ CompletedWasPrinted
BY DEF Init, Mine, Owned, OwnRecords, Truthful, CompletedWasPrinted, Engaged, Busy

\* A report that claims nothing.
LEMMA TruthfulAppend ==
  ASSUME Typed, Truthful, NEW r \in ReportSet, reports' = Append(reports, r),
         r.state = "completed" => Printed(r.job), UNCHANGED prints
  PROVE  Truthful'
<1>1. reports \in Seq(ReportSet) /\ Len(reports) \in Nat
  BY DEF Typed
<1>2. /\ DOMAIN reports' = 1 .. Len(reports) + 1 /\ DOMAIN reports = 1 .. Len(reports)
      /\ reports'[Len(reports) + 1] = r /\ \A i \in 1 .. Len(reports) : reports'[i] = reports[i]
  BY <1>1
<1>3. \A i \in 1 .. Len(reports) + 1 : i \in 1 .. Len(reports) \/ i = Len(reports) + 1
  BY <1>1
<1>4. \A q : Printed(q)' = Printed(q)
  BY DEF Printed
<1>5. \A i \in DOMAIN reports' : reports'[i].state = "completed" => Printed(reports'[i].job)
  BY <1>2, <1>3 DEF Truthful
<1>6. QED
  BY <1>4, <1>5 DEF Truthful

\* What is left of the reports.
LEMMA TruthfulTail ==
  ASSUME Typed, Truthful, reports # <<>>, reports' = Tail(reports), UNCHANGED prints
  PROVE  Truthful' /\ (Head(reports).state = "completed" => Printed(Head(reports).job))
<1>1. reports \in Seq(ReportSet) /\ Len(reports) \in Nat /\ Len(reports) # 0
  BY DEF Typed
<1>2. /\ DOMAIN reports' = 1 .. Len(reports) - 1 /\ DOMAIN reports = 1 .. Len(reports)
      /\ \A i \in 1 .. Len(reports) - 1 : reports'[i] = reports[i + 1] /\ i + 1 \in 1 .. Len(reports)
  BY <1>1
<1>3. 1 \in 1 .. Len(reports) /\ Head(reports) = reports[1]
  BY <1>1
<1>4. \A q : Printed(q)' = Printed(q)
  BY DEF Printed
<1>5. \A i \in DOMAIN reports' : reports'[i].state = "completed" => Printed(reports'[i].job)
  BY <1>2 DEF Truthful
<1>6. Truthful'
  BY <1>4, <1>5 DEF Truthful
<1>7. QED
  BY <1>2, <1>3, <1>6 DEF Truthful

\* A new print takes nothing back.
LEMMA PrintedMore ==
  ASSUME Typed, NEW p \in PrintSet, prints' = Append(prints, p)
  PROVE  /\ \A q : Printed(q) => Printed(q)'
         /\ Running' = p /\ \A k \in 1 .. Len(prints) : prints'[k] = prints[k]
<1>1. prints \in Seq(PrintSet) /\ Len(prints) \in Nat
  BY DEF Typed
<1>2. /\ DOMAIN prints = 1 .. Len(prints) /\ Len(prints') = Len(prints) + 1
      /\ prints'[Len(prints) + 1] = p /\ \A k \in 1 .. Len(prints) : prints'[k] = prints[k]
      /\ DOMAIN prints' = 1 .. Len(prints) + 1
  BY <1>1
<1>3. \A k \in 1 .. Len(prints) : k \in 1 .. Len(prints) + 1
  BY <1>1
<1>4. \A q : Printed(q) => Printed(q)'
  BY <1>2, <1>3 DEF Printed
<1>5. Running' = p
  BY <1>2 DEF Running
<1>6. QED
  BY <1>2, <1>4, <1>5

\* The end of a print takes nothing back either: what was printed was another one.
LEMMA PrintedStill ==
  ASSUME Typed, Busy, ~Running.done, NEW b \in BOOLEAN, prints' = [prints EXCEPT ![Len(prints)].done = b]
  PROVE  /\ \A q : Printed(q) => Printed(q)'
         /\ \A k \in 1 .. Len(prints) : prints'[k].owner = prints[k].owner
<1>1. prints \in Seq(PrintSet) /\ Len(prints) \in Nat /\ Len(prints) # 0
  BY DEF Typed
<1>2. Len(prints) \in 1 .. Len(prints) /\ DOMAIN prints = 1 .. Len(prints) /\ DOMAIN prints' = DOMAIN prints
  BY <1>1
<1>3. \A k \in 1 .. Len(prints) : k # Len(prints) => prints'[k] = prints[k]
  BY <1>2
<1>4. prints[Len(prints)] \in PrintSet /\ prints'[Len(prints)] = [prints[Len(prints)] EXCEPT !.done = b]
  BY <1>1, <1>2
<1>5. prints'[Len(prints)].owner = prints[Len(prints)].owner
  BY <1>4 DEF PrintSet
<1>6. \A q : Printed(q) => Printed(q)'
  <2>1. SUFFICES ASSUME NEW q, NEW i \in DOMAIN prints, prints[i].owner = q, prints[i].done
                 PROVE  Printed(q)'
    BY DEF Printed
  <2>2. i # Len(prints)
    BY <2>1 DEF Running
  <2>3. prints'[i] = prints[i] /\ i \in DOMAIN prints'
    BY <1>2, <1>3, <2>1, <2>2
  <2>4. QED
    BY <2>1, <2>3 DEF Printed
<1>7. QED
  BY <1>2, <1>3, <1>5, <1>6

\* Jobs that are completed stay printed.
LEMMA CompletedKept ==
  ASSUME CompletedWasPrinted, \A q : Printed(q) => Printed(q)',
         \A q \in QueueJobs : cloud'[q] = "completed" => cloud[q] = "completed"
  PROVE  CompletedWasPrinted'
BY DEF CompletedWasPrinted, Printed

\* A step that leaves the printer and the dispatches alone, buffers no record and reports
\* nothing wrong.
LEMMA MineKept ==
  ASSUME Mine, UNCHANGED <<flight, gcode, prints, dispatches>>, pending' \subseteq pending,
         Engaged => \A q \in QueueJobs : Holder(q) => Holder(q)', Truthful'
  PROVE  Mine'
<1>1. Engaged' = Engaged /\ Busy' = Busy /\ Running' = Running /\ Oldest' = Oldest
  BY DEF Engaged, Busy, Running, Oldest
<1>2. Owned'
  BY <1>1 DEF Mine, Owned
<1>3. OwnRecords'
  <2>1. SUFFICES ASSUME dispatches # <<>>
                 PROVE  /\ NewRecords' # {} => ~Engaged'
                        /\ \A k \in NewRecords' : prints'[k].owner = Oldest'.job
                        /\ Oldest'.aged => flight' = {}
    BY DEF OwnRecords
  <2>2. NewRecords' \subseteq NewRecords
    BY <1>1 DEF NewRecords
  <2>3. QED
    BY <1>1, <2>1, <2>2 DEF Mine, OwnRecords
<1>4. QED
  BY <1>1, <1>2, <1>3 DEF Mine

\* A printer at rest, and nothing that waits for its records.
LEMMA MineAtRest ==
  ASSUME ~Engaged', dispatches' = <<>>, Truthful' PROVE Mine'
BY DEF Mine, Owned, OwnRecords, Engaged, Busy

\* While the hub dispatches, nothing runs: a job that waits for its end is the one under way.
LEMMA RestAtDispatch ==
  ASSUME Typed, Mapped, Mine, pc = "dispatch", NEW q \in todo PROVE ~Engaged
<1>1. q \in QueueJobs /\ dispatches = <<>> /\ cloud[q] = "assigned"
  BY OnlyAssigned
<1>2. ASSUME NEW r \in QueueJobs, Holder(r) PROVE FALSE
  <2>1. cloud[r] \in {"uploading", "printing"}
    BY <1>1, <1>2 DEF Holder
  <2>2. r = q
    BY <1>1, <2>1 DEF Mapped, OneUnderWay, InProgress
  <2>3. QED
    BY <1>1, <2>1, <2>2
<1>3. QED
  BY <1>2 DEF Mine, Owned

\* The cloud assigns a job: nothing is under way, so nothing runs.
LEMMA AssignMine ==
  ASSUME Typed, Mapped, Mine, CompletedWasPrinted, NEW q \in QueueJobs, Assign(q)
  PROVE  Mine' /\ CompletedWasPrinted'
<1>1. /\ \A r \in QueueJobs : cloud[r] \notin InProgress
      /\ cloud' = [cloud EXCEPT ![q] = "assigned"]
      /\ UNCHANGED <<flight, gcode, prints, dispatches, reports, pending>>
  BY DEF Assign, printerVars, trackVars, beatVars
<1>2. reports = <<>> /\ dispatches = <<>> /\ pc # "record"
  BY <1>1, NothingUnderWay
<1>3. \A r \in QueueJobs : ~Holder(r)
  BY <1>1, <1>2 DEF Holder, InProgress
<1>4. ~Engaged'
  BY <1>1, <1>3 DEF Mine, Owned, Engaged, Busy
<1>5. Truthful' /\ \A r : Printed(r) => Printed(r)'
  BY <1>1 DEF Mine, Truthful, Printed
<1>6. Mine'
  BY <1>1, <1>2, <1>4, <1>5, MineAtRest
<1>7. \A r \in QueueJobs : cloud'[r] = "completed" => cloud[r] = "completed"
  BY <1>1 DEF Typed
<1>8. QED
  BY <1>5, <1>6, <1>7, CompletedKept

\* The printer takes up the start command of the job under way, or ignores it.
LEMMA CommandMine ==
  ASSUME Typed, Mine, CompletedWasPrinted, NEW q \in QueueJobs, TakeUp(q) \/ Ignore(q)
  PROVE  Mine' /\ CompletedWasPrinted'
<1>1. /\ q \in flight /\ flight' = flight \ {q}
      /\ UNCHANGED <<dispatches, pending, cloud, reports, pc, current>>
  BY DEF TakeUp, Ignore, trackVars, beatVars
<1>2. Engaged
  BY <1>1 DEF Engaged
<1>3. PICK r \in QueueJobs : flight \subseteq {r} /\ (Busy => Running.owner = r /\ flight = {}) /\ Holder(r)
  BY <1>2 DEF Mine, Owned
<1>4. r = q /\ flight' = {} /\ ~Busy /\ Holder(q)'
  BY <1>1, <1>3 DEF Holder, Oldest
<1>5. dispatches # <<>> => NewRecords = {} /\ NewRecords' = {} /\ flight' = {}
  BY <1>1, <1>2, <1>4 DEF Mine, OwnRecords, NewRecords, Oldest
<1>6. OwnRecords'
  BY <1>1, <1>5 DEF OwnRecords
<1>7. CASE TakeUp(q)
  <2> DEFINE p == [owner |-> q, done |-> FALSE]
  <2>1. prints' = Append(prints, p) /\ gcode' = "RUNNING"
    BY <1>7 DEF TakeUp
  <2>2. p \in PrintSet /\ p.owner = q /\ ~p.done
    BY DEF PrintSet
  <2> HIDE DEF p
  <2>3. (\A x : Printed(x) => Printed(x)') /\ Running' = p
    BY <2>1, <2>2, PrintedMore
  <2>4. Truthful'
    BY <1>1, <2>3 DEF Mine, Truthful
  <2>5. Owned' /\ (Busy => ~Running.done)'
    BY <1>4, <2>2, <2>3 DEF Owned
  <2>6. QED
    BY <1>1, <1>6, <2>3, <2>4, <2>5, CompletedKept DEF Mine
<1>8. CASE Ignore(q)
  <2>1. UNCHANGED <<gcode, prints>>
    BY <1>8 DEF Ignore
  <2>2. \A x : Printed(x) => Printed(x)'
    BY <2>1 DEF Printed
  <2>3. Truthful'
    BY <1>1, <2>2 DEF Mine, Truthful
  <2>4. ~Engaged' /\ ~Busy'
    BY <1>4, <2>1 DEF Engaged, Busy
  <2>5. QED
    BY <1>1, <1>6, <2>2, <2>3, <2>4, CompletedKept DEF Mine, Owned
<1>9. QED
  BY <1>7, <1>8

\* A print ends: its record is the followed job's.
LEMMA EndMine ==
  ASSUME Typed, Mapped, Mine, CompletedWasPrinted, NEW st \in {"FINISH", "FAILED"}, EndPrint(st)
  PROVE  Mine' /\ CompletedWasPrinted'
<1>1. /\ Busy /\ gcode' = st /\ pending' = pending \cup {Len(prints)}
      /\ prints' = [prints EXCEPT ![Len(prints)].done = (st = "FINISH")]
      /\ UNCHANGED <<flight, dispatches, cloud, reports>>
  BY DEF EndPrint, beatVars
<1>2. Engaged /\ ~Running.done
  BY <1>1 DEF Engaged, Mine
<1>3. PICK r \in QueueJobs : Running.owner = r /\ flight = {} /\ Holder(r)
  BY <1>1, <1>2 DEF Mine, Owned
<1>4. /\ \A q : Printed(q) => Printed(q)'
      /\ \A k \in 1 .. Len(prints) : prints'[k].owner = prints[k].owner
  <2>1. (st = "FINISH") \in BOOLEAN
    OBVIOUS
  <2>2. QED
    BY <1>1, <1>2, <2>1, PrintedStill
<1>5. ~Engaged' /\ ~Busy'
  BY <1>1, <1>3 DEF Engaged, Busy
<1>6. Truthful'
  BY <1>1, <1>4 DEF Mine, Truthful
<1>7. OwnRecords'
  <2>1. SUFFICES ASSUME dispatches # <<>>
                 PROVE  /\ \A k \in NewRecords' : prints'[k].owner = Oldest'.job
                        /\ flight' = {}
    BY <1>1, <1>5 DEF OwnRecords
  <2>2. Oldest' = Oldest /\ Oldest.job = r
    BY <1>1, <1>3, <2>1 DEF Oldest, Holder, Mapped, Publishing
  <2>3. NewRecords = {}
    BY <1>2, <2>1 DEF Mine, OwnRecords
  <2>4. NewRecords' \subseteq {Len(prints)}
    BY <1>1, <2>2, <2>3 DEF NewRecords
  <2>5. Len(prints) \in 1 .. Len(prints)
    <3>1. prints \in Seq(PrintSet) /\ prints # <<>>
      BY <1>1 DEF Typed
    <3>2. QED
      BY <3>1
  <2>6. prints'[Len(prints)].owner = r
    BY <1>3, <1>4, <2>5 DEF Running
  <2>7. QED
    BY <1>1, <1>3, <2>2, <2>4, <2>6
<1>8. QED
  BY <1>1, <1>4, <1>5, <1>6, <1>7, CompletedKept DEF Mine, Owned

\* The hub dispatches a job, holds it or sends its start command.
LEMMA DispatchMine ==
  ASSUME Typed, Mapped, Mine, CompletedWasPrinted, NEW q \in QueueJobs, Dispatch(q)
  PROVE  Mine' /\ CompletedWasPrinted'
<1>1. /\ pc = "dispatch" /\ q \in todo /\ UNCHANGED <<cloud, dispatches, gcode, prints, pending>>
  BY DEF Dispatch, DispatchSkip, DispatchHeld, DispatchPublish, printerVars, trackVars
<1>2. dispatches = <<>> /\ reports = <<>> /\ ~Engaged
  BY <1>1, OnlyAssigned, RestAtDispatch
<1>3. flight = {} /\ ~Busy /\ ~Busy'
  BY <1>1, <1>2 DEF Engaged, Busy
<1>4. /\ Report(q, "held") \in ReportSet /\ Report(q, "held").state = "held"
      /\ Report(q, "uploading") \in ReportSet /\ Report(q, "uploading").state = "uploading"
  BY ReportMake
<1>5. \A x : Printed(x) => Printed(x)'
  BY <1>1 DEF Printed
<1>6. CompletedWasPrinted'
  BY <1>1, <1>5, CompletedKept
<1>7. ASSUME NEW a \in ReportSet, NEW b \in ReportSet, a.state # "completed", b.state # "completed",
             reports' = <<>> \/ reports' = <<a>> \/ reports' = <<a, b>>
      PROVE  Truthful'
  BY <1>7 DEF Truthful
<1>8. Truthful'
  <2>1. <<>> \in Seq(ReportSet)
    OBVIOUS
  <2>2. CASE DispatchSkip(q)
    BY <1>2, <1>4, <1>7, <2>2 DEF DispatchSkip
  <2>3. CASE DispatchHeld(q, <<Report(q, "held")>>)
    <3>1. reports' = <<Report(q, "held")>>
      BY <1>2, <2>3 DEF DispatchHeld
    <3>2. QED
      BY <1>4, <1>7, <3>1
  <2>4. CASE DispatchHeld(q, <<Report(q, "uploading"), Report(q, "held")>>)
    <3>1. reports' = <<Report(q, "uploading"), Report(q, "held")>>
      BY <1>2, <2>4 DEF DispatchHeld
    <3>2. QED
      BY <1>4, <1>7, <3>1
  <2>5. CASE DispatchPublish(q)
    <3>1. reports' = <<Report(q, "uploading")>>
      BY <1>2, <2>5 DEF DispatchPublish
    <3>2. QED
      BY <1>4, <1>7, <3>1
  <2>6. QED
    BY <2>2, <2>3, <2>4, <2>5 DEF Dispatch
<1>9. CASE DispatchPublish(q)
  <2>1. flight' = {q} /\ pc' = "record" /\ current' = q
    BY <1>3, <1>9 DEF DispatchPublish
  <2>2. Owned'
    BY <1>3, <2>1 DEF Owned, Holder
  <2>3. QED
    BY <1>1, <1>2, <1>3, <1>6, <1>8, <2>2 DEF Mine, OwnRecords
<1>10. CASE ~DispatchPublish(q)
  <2>1. UNCHANGED flight
    BY <1>10 DEF Dispatch, DispatchSkip, DispatchHeld, printerVars
  <2>2. ~Engaged'
    BY <1>3, <2>1 DEF Engaged
  <2>3. QED
    BY <1>1, <1>2, <1>6, <1>8, <2>2, MineAtRest
<1>11. QED
  BY <1>9, <1>10

\* The dispatch is recorded: every record there is now is in its baseline.
LEMMA RecordMine ==
  ASSUME Typed, Mapped, Mine, CompletedWasPrinted, DispatchRecord
  PROVE  Mine' /\ CompletedWasPrinted'
<1> DEFINE d == [job |-> current, printing |-> FALSE, baseline |-> pending, aged |-> FALSE]
<1>1. /\ pc = "record" /\ dispatches' = Append(dispatches, d)
      /\ UNCHANGED <<flight, gcode, prints, pending, cloud, reports>>
  BY DEF DispatchRecord, printerVars
<1>2. dispatches = <<>> /\ current \in QueueJobs
  BY <1>1 DEF Mapped, Publishing, Typed
<1>3. d.job = current /\ d.baseline = pending /\ ~d.aged
  OBVIOUS
<1> HIDE DEF d
<1>4. dispatches' # <<>> /\ Oldest' = d
  BY <1>1, <1>2 DEF Oldest
<1>5. Engaged' = Engaged /\ Busy' = Busy /\ Running' = Running /\ \A x : Printed(x)' = Printed(x)
  BY <1>1 DEF Engaged, Busy, Running, Printed
<1>6. NewRecords' = {}
  BY <1>1, <1>3, <1>4 DEF NewRecords
<1>7. OwnRecords'
  BY <1>3, <1>4, <1>6 DEF OwnRecords
<1>8. \A q \in QueueJobs : Holder(q) => Holder(q)'
  BY <1>1, <1>2, <1>3, <1>4 DEF Holder
<1>9. Owned'
  BY <1>1, <1>5, <1>8 DEF Mine, Owned
<1>10. Truthful'
  BY <1>1, <1>5 DEF Mine, Truthful
<1>11. QED
  BY <1>1, <1>5, <1>7, <1>9, <1>10, CompletedKept DEF Mine

\* The oldest dispatch is marked: nothing but the mark changes.
LEMMA MarkMine ==
  ASSUME Typed, Mine, dispatches # <<>>, NEW e \in DispatchSet, e.job = Oldest.job, e.baseline = Oldest.baseline,
         e.aged => Oldest.aged \/ flight = {}, dispatches' = [dispatches EXCEPT ![1] = e],
         UNCHANGED <<flight, gcode, prints, pending>>, Truthful', pc # "record"
  PROVE  Mine'
<1>1. dispatches' # <<>> /\ Oldest' = e
  <2>1. dispatches \in Seq(DispatchSet)
    BY DEF Typed
  <2>2. Len(dispatches') = Len(dispatches) /\ dispatches'[1] = e /\ dispatches' \in Seq(DispatchSet)
    BY <2>1, MarkOldest
  <2>3. QED
    BY <2>1, <2>2 DEF Oldest
<1>2. Engaged' = Engaged /\ Busy' = Busy /\ Running' = Running /\ NewRecords' = NewRecords
  BY <1>1 DEF Engaged, Busy, Running, NewRecords
<1>3. Owned'
  BY <1>1, <1>2 DEF Mine, Owned, Holder
<1>4. OwnRecords'
  BY <1>1, <1>2 DEF Mine, OwnRecords
<1>5. QED
  BY <1>2, <1>3, <1>4 DEF Mine

\* The hub takes the one new record for the oldest dispatch: it is that job's.
LEMMA LinkMine ==
  ASSUME Typed, Mapped, Mine, CompletedWasPrinted, CollectLink
  PROVE  Mine' /\ CompletedWasPrinted'
<1> USE DEF printerVars
<1>1. PICK key \in Candidates : reports' = reports \o LinkReports(Oldest, key)
  BY DEF CollectLink, LinkReports
<1>2. /\ dispatches # <<>> /\ dispatches' = Tail(dispatches)
      /\ UNCHANGED <<flight, gcode, prints, cloud>>
  BY DEF CollectLink, Collected
<1>3. key \in NewRecords /\ key \in 1 .. Len(prints)
  BY <1>1 DEF Candidates, NewRecords, Typed
<1>4. ~Engaged /\ prints[key].owner = Oldest.job
  BY <1>2, <1>3 DEF Mine, OwnRecords
<1>5. ~Engaged' /\ \A x : Printed(x)' = Printed(x)
  BY <1>2, <1>4 DEF Engaged, Busy, Printed
<1>6. dispatches' = <<>>
  <2>1. dispatches \in Seq(DispatchSet) /\ Len(dispatches) <= 1
    BY DEF Typed, Mapped
  <2>2. QED
    BY <1>2, <2>1
<1>7. prints[key].done => Printed(Oldest.job)
  <2>1. DOMAIN prints = 1 .. Len(prints)
    BY DEF Typed
  <2>2. QED
    BY <1>3, <1>4, <2>1 DEF Printed
<1> DEFINE q == Oldest.job
           held == Report(q, "held")
           printing == Report(q, "printing")
           completed == Report(q, "completed")
           over == IF prints[key].done THEN completed ELSE held
<1>8. q \in QueueJobs
  BY <1>2, OldestTyped, DispatchJob
<1>9. /\ held \in ReportSet /\ held.state = "held"
      /\ printing \in ReportSet /\ printing.state = "printing"
      /\ completed \in ReportSet /\ completed.job = q /\ completed.state = "completed"
  BY <1>8, ReportMake
<1>10. reports' = reports \o <<over>> \/ reports' = reports \o <<printing, over>>
  BY <1>1 DEF LinkReports
<1>11. over \in ReportSet /\ (over.state = "completed" => Printed(over.job))
  BY <1>7, <1>9
<1> HIDE DEF q, held, printing, completed, over
<1>12. reports \in Seq(ReportSet)
  BY DEF Typed
<1>13. reports' = Append(reports, over) \/ reports' = Append(Append(reports, printing), over)
  BY <1>9, <1>10, <1>11, <1>12, JoinOneOrTwo
<1>14. Truthful'
  <2>1. CASE reports' = Append(reports, over)
    BY <1>2, <1>11, <2>1, TruthfulAppend DEF Mine
  <2>2. CASE reports' = Append(Append(reports, printing), over)
    <3> DEFINE n == Len(reports)
    <3>1. n \in Nat /\ DOMAIN reports = 1 .. n
      BY <1>12
    <3>2. /\ DOMAIN reports' = 1 .. n + 2 /\ reports'[n + 1] = printing /\ reports'[n + 2] = over
          /\ \A i \in 1 .. n : reports'[i] = reports[i]
      <4> DEFINE mid == Append(reports, printing)
      <4>1. /\ mid \in Seq(ReportSet) /\ Len(mid) = n + 1 /\ mid[n + 1] = printing
            /\ \A i \in 1 .. n : mid[i] = reports[i]
        BY <1>9, <1>12
      <4> HIDE DEF mid
      <4>2. /\ DOMAIN Append(mid, over) = 1 .. (n + 1) + 1 /\ Append(mid, over)[(n + 1) + 1] = over
            /\ \A i \in 1 .. n + 1 : Append(mid, over)[i] = mid[i]
        BY <1>11, <4>1
      <4>3. (n + 1) + 1 = n + 2 /\ n + 1 \in 1 .. n + 1 /\ \A i \in 1 .. n : i \in 1 .. n + 1
        BY <3>1
      <4>4. reports' = Append(mid, over)
        BY <2>2 DEF mid
      <4>5. QED
        BY <4>1, <4>2, <4>3, <4>4
    <3> HIDE DEF n
    <3>3. \A i \in 1 .. n + 2 : i \in 1 .. n \/ i = n + 1 \/ i = n + 2
      BY <3>1
    <3>4. \A i \in DOMAIN reports' : reports'[i].state = "completed" => Printed(reports'[i].job)
      BY <1>9, <1>11, <3>1, <3>2, <3>3 DEF Mine, Truthful
    <3>5. QED
      BY <1>5, <3>4 DEF Truthful
  <2>3. QED
    BY <1>13, <2>1, <2>2
<1>15. QED
  BY <1>2, <1>5, <1>6, <1>14, MineAtRest, CompletedKept

\* The hub collects without a record: it sees the print, gives the job up or waits on.
LEMMA CollectMine ==
  ASSUME Typed, Mapped, Mine, CompletedWasPrinted, CollectPrinting \/ CollectGiveUp \/ CollectNothing
  PROVE  Mine' /\ CompletedWasPrinted'
<1>1. pc = "dispatch" /\ pc' = "flush" /\ UNCHANGED <<flight, gcode, prints, pending, cloud, current>>
  BY DEF CollectPrinting, CollectGiveUp, CollectNothing, Collecting, Collected, printerVars
<1>2. \A x : Printed(x)' = Printed(x)
  BY <1>1 DEF Printed
<1>3. CompletedWasPrinted'
  BY <1>1, <1>2, CompletedKept
<1>4. dispatches # <<>> => Oldest \in DispatchSet /\ Oldest.job \in QueueJobs
  BY OldestTyped, DispatchJob
<1>5. ASSUME NEW st \in {"printing", "held"}, dispatches # <<>>, reports' = Append(reports, Report(Oldest.job, st))
      PROVE  Truthful'
  <2>1. Report(Oldest.job, st) \in ReportSet /\ Report(Oldest.job, st).state = st
    BY <1>4, <1>5, ReportMake
  <2>2. QED
    BY <1>1, <1>5, <2>1, TruthfulAppend DEF Mine
<1>6. CASE CollectPrinting
  <2> DEFINE e == [Oldest EXCEPT !.printing = TRUE]
  <2>1. dispatches # <<>> /\ dispatches' = [dispatches EXCEPT ![1] = e] /\ reports' = Append(reports, Report(Oldest.job, "printing"))
    BY <1>6 DEF CollectPrinting, Oldest
  <2>2. e \in DispatchSet /\ e.job = Oldest.job /\ e.baseline = Oldest.baseline /\ e.aged = Oldest.aged
    BY <1>4, <2>1, DispatchParts
  <2> HIDE DEF e
  <2>3. Truthful'
    BY <1>5, <2>1
  <2>4. QED
    BY <1>1, <1>3, <2>1, <2>2, <2>3, MarkMine
<1>7. CASE CollectGiveUp
  <2>1. /\ dispatches # <<>> /\ dispatches' = Tail(dispatches) /\ reports' = Append(reports, Report(Oldest.job, "held"))
        /\ Oldest.aged /\ ~Busy
    BY <1>7 DEF CollectGiveUp, TimedOut
  <2>2. ~Engaged'
    BY <1>1, <2>1 DEF Mine, OwnRecords, Engaged, Busy
  <2>3. dispatches' = <<>>
    <3>1. dispatches \in Seq(DispatchSet) /\ Len(dispatches) <= 1
      BY DEF Typed, Mapped
    <3>2. QED
      BY <2>1, <3>1
  <2>4. Truthful'
    BY <1>5, <2>1
  <2>5. QED
    BY <1>3, <2>2, <2>3, <2>4, MineAtRest
<1>8. CASE CollectNothing
  <2>1. UNCHANGED <<dispatches, reports>>
    BY <1>8 DEF CollectNothing
  <2>2. Truthful'
    BY <1>2, <2>1 DEF Mine, Truthful
  <2>3. \A q \in QueueJobs : Holder(q) => Holder(q)'
    BY <1>1, <2>1 DEF Holder, Oldest
  <2>4. QED
    BY <1>1, <1>3, <2>1, <2>2, <2>3, MineKept
<1>9. QED
  BY <1>6, <1>7, <1>8

\* A report is applied: what it says of a print is so.
LEMMA FlushMine ==
  ASSUME Typed, Mapped, Mine, CompletedWasPrinted, FlushOne
  PROVE  Mine' /\ CompletedWasPrinted'
<1> DEFINE h == Head(reports)
<1>1. /\ pc = "flush" /\ reports # <<>> /\ Apply(h) /\ reports' = Tail(reports)
      /\ UNCHANGED <<flight, gcode, prints, dispatches, pending, pc, current>>
  BY DEF FlushOne, printerVars, trackVars
<1>2. Truthful' /\ (h.state = "completed" => Printed(h.job))
  BY <1>1, TruthfulTail DEF Mine
<1>3. h \in ReportSet
  BY <1>1 DEF Typed
<1> HIDE DEF h
<1>4. h.job \in QueueJobs
  BY <1>3 DEF ReportSet
<1>5. \A q \in QueueJobs : Holder(q) => Holder(q)'
  BY <1>1 DEF Holder, Oldest
<1>6. Mine'
  BY <1>1, <1>2, <1>5, MineKept
<1>7. \A q \in QueueJobs : cloud'[q] = "completed" => Printed(q)
  <2>1. cloud' = [cloud EXCEPT ![h.job] = h.state] \/ cloud' = cloud
    BY <1>1 DEF Apply
  <2>2. QED
    BY <1>2, <1>4, <2>1 DEF Typed, CompletedWasPrinted, Printed
<1>8. CompletedWasPrinted'
  BY <1>1, <1>7 DEF CompletedWasPrinted, Printed
<1>9. QED
  BY <1>6, <1>8

\* reconcile rebuilds the adapter: the job it followed is still under way for the cloud.
LEMMA RebuildMine ==
  ASSUME Typed, Mapped, Mine, CompletedWasPrinted, Rebuild
  PROVE  Mine' /\ CompletedWasPrinted'
<1>1. /\ pc = "idle" /\ pc' = "idle" /\ dispatches' = <<>>
      /\ UNCHANGED <<flight, gcode, prints, cloud, reports, current>>
  BY DEF Rebuild, printerVars, beatVars
<1>2. reports = <<>>
  BY <1>1 DEF Mapped
<1>3. \A x : Printed(x)' = Printed(x)
  BY <1>1 DEF Printed
<1>4. Engaged' = Engaged /\ Busy' = Busy /\ Running' = Running
  BY <1>1 DEF Engaged, Busy, Running
<1>5. ASSUME NEW q \in QueueJobs, Holder(q) PROVE Holder(q)'
  <2>1. CASE dispatches # <<>> /\ Oldest.job = q
    <3>1. Path(cloud[q], <<>>, Stage(Oldest), q)
      BY <1>2, <2>1 DEF Mapped, FollowedPath
    <3>2. cloud[q] = Stage(Oldest)
      BY <3>1, PathEmpty
    <3>3. cloud[q] \in {"uploading", "printing"}
      BY <3>2 DEF Stage
    <3>4. QED
      BY <1>1, <1>2, <3>3 DEF Holder
  <2>2. CASE cloud[q] \in {"uploading", "printing"}
    BY <1>1, <1>2, <2>2 DEF Holder
  <2>3. QED
    BY <1>1, <1>5, <2>1, <2>2 DEF Holder
<1>6. Owned'
  BY <1>1, <1>4, <1>5 DEF Mine, Owned
<1>7. Truthful'
  BY <1>1, <1>3 DEF Mine, Truthful
<1>8. QED
  BY <1>1, <1>3, <1>4, <1>6, <1>7, CompletedKept DEF Mine, OwnRecords

\* Every step of a process that has not died, on a printer only the hub starts and in time.
LEMMA StepMine ==
  ASSUME Weather = {}
  PROVE  /\ Typed /\ Mapped /\ Mine /\ CompletedWasPrinted
         /\ crashes = 0 /\ (crashes = 0)' /\ [Next]_vars
         => Mine' /\ CompletedWasPrinted'
<1> SUFFICES ASSUME Typed, Mapped, Mine, CompletedWasPrinted, crashes = 0, crashes' = 0, [Next]_vars
             PROVE  Mine' /\ CompletedWasPrinted'
  OBVIOUS
<1> USE DEF printerVars, trackVars, beatVars, envVars
<1>1. ~StartForeign /\ ~FlushRetry /\ ~Crash
  BY DEF StartForeign, FlushRetry, Crash
<1>2. CASE Age
  <2> DEFINE e == [Oldest EXCEPT !.aged = TRUE]
  <2>1. /\ dispatches # <<>> /\ dispatches' = [dispatches EXCEPT ![1] = e] /\ flight = {} /\ pc = "idle"
        /\ UNCHANGED <<flight, gcode, prints, pending, reports, cloud>>
    BY <1>2 DEF Age, Oldest
  <2>2. e \in DispatchSet /\ e.job = Oldest.job /\ e.baseline = Oldest.baseline
    BY <2>1, OldestTyped, DispatchParts
  <2> HIDE DEF e
  <2>3. Truthful' /\ CompletedWasPrinted'
    BY <2>1 DEF Mine, Truthful, Printed, CompletedWasPrinted
  <2>4. QED
    BY <2>1, <2>2, <2>3, MarkMine
<1>3. CASE Beat \/ FlushDone \/ AckJobs \/ UNCHANGED vars
  <2>1. /\ UNCHANGED <<flight, gcode, prints, dispatches, reports, cloud, current>> /\ pending' \subseteq pending
        /\ (pc = "record" <=> pc' = "record")
    BY <1>3 DEF Beat, FlushDone, AckJobs, vars
  <2>2. Truthful' /\ CompletedWasPrinted'
    BY <2>1 DEF Mine, Truthful, Printed, CompletedWasPrinted
  <2>3. \A q \in QueueJobs : Holder(q) => Holder(q)'
    BY <2>1 DEF Holder, Oldest
  <2>4. QED
    BY <2>1, <2>2, <2>3, MineKept
<1>4. QED
  BY <1>1, <1>2, <1>3, AssignMine, CommandMine, EndMine, DispatchMine, RecordMine, LinkMine, CollectMine,
     FlushMine, RebuildMine
     DEF Next, Commanded, PrintEnds, Heartbeat

\* The process has not died yet.
Alive == crashes = 0

\* On a printer that only the hub starts, whose start commands take effect before they time
\* out, and as long as the process has not died, a job the cloud has as completed was
\* printed: no record of another print is ever taken for it, however jobs are held and
\* assigned again, and whenever the adapter is rebuilt.
THEOREM CompletedMeansPrinted ==
  ASSUME Weather = {} PROVE Spec /\ []Alive => []CompletedWasPrinted
<1>1. "outage" \notin Weather
  OBVIOUS
<1>2. Typed /\ Mapped /\ MapRespected /\ [Next]_vars => Mapped' /\ MapRespected'
  BY <1>1, StepMapped
<1>3. /\ Typed /\ Mapped /\ Mine /\ CompletedWasPrinted /\ Alive /\ Alive' /\ [Next]_vars
      => Mine' /\ CompletedWasPrinted'
  BY StepMine DEF Alive
<1>4. QED
  BY <1>2, <1>3, InitTyped, StepTyped, InitMapped, InitMine, PTL DEF Spec

-------------------------------------------------------------------------------
(* The types, whatever the guard has room for. *)

\* The guard, with the jobs of dispatches that are gone.
Capped(g) == g \in Seq(QueueJobs) /\ IsInjective(g) /\ Len(g) <= GuardMax

\* What the types need beyond Typed.
Tidy ==
  /\ gcode \in {"IDLE", "RUNNING", "FINISH", "FAILED"} /\ rejected \subseteq ReportSet
  /\ Capped(guard)
  /\ linked \subseteq 1 .. Len(prints) /\ (pc = "flush" => linked \subseteq pending)
  /\ pc = "record" <=> current # Nobody

\* A dispatched job is in the guard once, and the guard is no longer than its cap.
LEMMA RememberCapped ==
  ASSUME Capped(guard), NEW q \in QueueJobs PROVE Capped(Remember(q))
<1> DEFINE k == Keep(guard, QueueJobs \ {q})
           grown == Append(k, q)
           n == Len(grown) - GuardMax
           rest == SubSeq(grown, n + 1, Len(grown))
<1>1. k \in Seq(QueueJobs) /\ IsInjective(k) /\ Len(k) <= Len(guard) /\ ToSet(k) = ToSet(guard) \ {q}
  BY KeepGuard DEF Capped
<1> HIDE DEF k
<1>2. grown \in Seq(QueueJobs) /\ IsInjective(grown) /\ Len(grown) = Len(k) + 1
  BY <1>1, AppendSet, AppendDistinct
<1>3. Len(guard) <= GuardMax /\ Len(guard) \in Nat /\ GuardMax \in Nat
  BY QueueDispatchAssumption DEF Capped
<1>4. Remember(q) = IF n > 0 THEN rest ELSE grown
  BY DEF Remember, k
<1> HIDE DEF grown
<1>5. Len(grown) \in Nat /\ n \in Int /\ n <= Len(grown)
  BY <1>2, <1>3
<1>6. CASE n > 0
  <2>1. n \in 0 .. Len(grown) /\ Len(grown) - n = GuardMax
    BY <1>3, <1>5, <1>6
  <2> HIDE DEF n
  <2>2. rest \in Seq(QueueJobs) /\ IsInjective(rest)
    <3> DEFINE taken == {grown[i] : i \in 1 .. n}
    <3>1. /\ taken \subseteq QueueJobs /\ IsFiniteSet(taken) /\ Cardinality(taken) = n
          /\ rest \in Seq(QueueJobs) /\ IsInjective(rest) /\ (rest # <<>> => n < Len(grown))
          /\ taken \cup ToSet(rest) = ToSet(grown) /\ taken \cap ToSet(rest) = {}
      BY <1>2, <2>1, CutInTwo
    <3>2. QED
      BY <3>1
  <2>3. Len(rest) = Len(grown) - n
    <3>1. \A i \in n + 1 .. Len(grown) : grown[i] \in QueueJobs
      BY <1>2, <2>1
    <3>2. Len(rest) = IF n + 1 <= Len(grown) THEN Len(grown) - (n + 1) + 1 ELSE 0
      BY <1>5, <2>1, <3>1, SubSeqProperties
    <3>3. QED
      BY <1>5, <2>1, <3>2
  <2> HIDE DEF rest
  <2>4. QED
    BY <1>4, <1>6, <2>1, <2>2, <2>3, <1>3 DEF Capped
<1>7. CASE ~(n > 0)
  BY <1>2, <1>3, <1>4, <1>5, <1>7 DEF Capped
<1>8. QED
  BY <1>6, <1>7

\* A job that is over leaves the guard.
LEMMA ForgetCapped ==
  ASSUME Capped(guard), NEW q \in QueueJobs PROVE Capped(Forget(q))
<1> DEFINE k == Keep(guard, QueueJobs \ {q})
<1>1. k \in Seq(QueueJobs) /\ IsInjective(k) /\ Len(k) <= Len(guard)
  BY KeepGuard DEF Capped
<1> HIDE DEF k
<1>2. Len(k) <= GuardMax
  BY <1>1, QueueDispatchAssumption DEF Capped
<1>3. QED
  BY <1>1, <1>2 DEF Capped, Forget, k

\* Every step keeps them.
LEMMA StepTidy == Typed /\ Tidy /\ [Next]_vars => Tidy'
<1> SUFFICES ASSUME Typed, Tidy, [Next]_vars PROVE Tidy'
  OBVIOUS
<1> USE DEF printerVars, trackVars, beatVars, envVars
<1>a. Len(prints) \in Nat /\ pending \subseteq 1 .. Len(prints) /\ Nobody \notin QueueJobs
  BY QueueDispatchAssumption DEF Typed
<1>1. ASSUME UNCHANGED <<gcode, rejected, guard, linked, prints, pending, pc, current>> PROVE Tidy'
  BY <1>1 DEF Tidy
<1>2. CASE \E q \in QueueJobs : Assign(q) \/ Ignore(q) \/ DispatchSkip(q) \/ (\E told : DispatchHeld(q, told))
  BY <1>1, <1>2 DEF Assign, Ignore, DispatchSkip, DispatchHeld
<1>3. ASSUME NEW w \in QueueJobs \cup {Nobody}, prints' = Append(prints, [owner |-> w, done |-> FALSE]),
             gcode' = "RUNNING", UNCHANGED <<rejected, guard, linked, pending, pc, current>>
      PROVE  Tidy'
  <2>1. Len(prints') = Len(prints) + 1
    BY <1>3 DEF Typed
  <2>2. linked' \subseteq 1 .. Len(prints')
    BY <1>a, <1>3, <2>1 DEF Tidy
  <2>3. QED
    BY <1>3, <2>2 DEF Tidy
<1>4. CASE StartForeign \/ (\E q \in QueueJobs : TakeUp(q))
  BY <1>3, <1>4 DEF StartForeign, TakeUp
<1>5. ASSUME NEW st \in {"FINISH", "FAILED"}, EndPrint(st) PROVE Tidy'
  <2>1. Len(prints') = Len(prints)
    BY <1>5 DEF EndPrint, Typed
  <2>2. QED
    BY <1>5, <2>1 DEF EndPrint, Tidy
<1>6. CASE Age \/ Beat \/ FlushRetry \/ FlushDone \/ AckJobs \/ FlushOne
  <2>1. rejected' \subseteq ReportSet
    <3>1. CASE reports # <<>> /\ Apply(Head(reports))
      <4>1. Head(reports) \in ReportSet
        BY <3>1 DEF Typed
      <4>2. QED
        BY <3>1, <4>1 DEF Apply, Tidy
    <3>2. CASE rejected' = rejected
      BY <3>2 DEF Tidy
    <3>3. QED
      BY <1>6, <3>1, <3>2 DEF Age, Beat, FlushRetry, FlushDone, AckJobs, FlushOne
  <2>2. /\ UNCHANGED <<gcode, guard, linked, prints, current>>
        /\ (pc' = "flush" => pc = "flush" /\ pending' = pending) /\ (pc' = "record" <=> pc = "record")
    BY <1>6 DEF Age, Beat, FlushRetry, FlushDone, AckJobs, FlushOne
  <2>3. QED
    BY <2>1, <2>2 DEF Tidy
<1>7. CASE \E q \in QueueJobs : DispatchPublish(q)
  BY <1>7, <1>a DEF DispatchPublish, Tidy
<1>8. CASE DispatchRecord
  <2>1. Capped(Remember(current))
    BY <1>8, RememberCapped DEF DispatchRecord, Typed, Tidy
  <2>2. QED
    BY <1>8, <2>1 DEF DispatchRecord, Tidy
<1>9. CASE CollectLink \/ CollectPrinting \/ CollectGiveUp \/ CollectNothing
  <2>1. /\ pc = "dispatch" /\ pc' = "flush" /\ UNCHANGED <<gcode, rejected, prints, pending, current>>
        /\ guard' = guard \/ (dispatches # <<>> /\ guard' = Forget(Oldest.job))
    BY <1>9 DEF CollectLink, CollectPrinting, CollectGiveUp, CollectNothing, Collected, Collecting
  <2>2. linked' \subseteq pending
    BY <1>9 DEF CollectLink, CollectPrinting, CollectGiveUp, CollectNothing, Candidates
  <2>3. Capped(guard')
    <3>1. dispatches # <<>> => Oldest.job \in QueueJobs
      BY OldestTyped, DispatchJob
    <3>2. QED
      BY <2>1, <3>1, ForgetCapped DEF Tidy
  <2>4. QED
    BY <1>a, <2>1, <2>2, <2>3 DEF Tidy
<1>10. CASE Rebuild
  BY <1>10 DEF Rebuild, Tidy
<1>11. CASE Crash
  <2>1. Capped(<<>>)
    BY QueueDispatchAssumption DEF Capped, IsInjective
  <2>2. QED
    BY <1>11, <2>1 DEF Crash, Tidy
<1>12. CASE UNCHANGED vars
  BY <1>1, <1>12 DEF vars
<1>13. QED
  BY <1>2, <1>4, <1>5, <1>6, <1>7, <1>8, <1>9, <1>10, <1>11, <1>12
  DEF Next, Commanded, PrintEnds, Heartbeat, Dispatch

\* The types of QueueDispatch: the guard of dispatched jobs never exceeds its cap and has
\* no job twice, however many jobs are followed (_remember_dispatched_queue_job), and the
\* keys linked to dispatches are pruned to those pending in every collect().
THEOREM TypesHold == Spec => []TypeOK
<1>1. Init => Tidy
  <2>1. Capped(<<>>)
    BY QueueDispatchAssumption DEF Capped, IsInjective
  <2>2. QED
    BY <2>1 DEF Init, Tidy
<1>2. Typed /\ Tidy => TypeOK
  BY DEF Typed, Tidy, Capped, TypeOK
<1>3. QED
  BY <1>1, <1>2, InitTyped, StepTyped, StepTidy, PTL DEF Spec
===============================================================================
