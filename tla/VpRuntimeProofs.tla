---------------------------- MODULE VpRuntimeProofs ----------------------------
(***************************************************************************)
(* Proofs about VpRuntime, for any number of sends and connections: what   *)
(* slicers are shown and served, what is left after stop(), the limits of  *)
(* the coordinator's buckets, and which halves it pairs.                   *)
(***************************************************************************)
EXTENDS VpRuntime, ListsProofs

ConnStates == {"new", "connecting", "ready", "puback", "ack", "gone"}

SetUp(c) == conn[c] \in {"ready", "puback", "ack"}

\* The part of the type invariant the arguments below need.
BrokerTypes ==
  /\ conn \in [Conns -> ConnStates]
  /\ closing \subseteq Conns
  /\ writer \in Conns \cup {Nil} /\ session \in Conns \cup {Nil}
  /\ upload \in [Sends -> {"none", "waiting", "receiving", "done", "failed"}]

\* Only the newest connection is open, the others' writers are closing.
OneOpen == \A c \in Conns : Live(c) => writer = c \/ c \in closing

\* The active session is one that was set up; once its writer is closing it can
\* only read: whatever it publishes is ignored.
SessionSetUp ==
  /\ session # Nil => SetUp(session)
  /\ session # Nil /\ session \in closing => conn[session] = "ready"

\* What each stage of stop() has put an end to.
Quiet ==
  /\ life \notin {"up", "closing"} => session = Nil /\ \A c \in Conns : ~Live(c)
  /\ life = "stopped" =>
       /\ \A s \in Sends : upload[s] \notin {"waiting", "receiving"}
       /\ slot = Nil /\ pending = <<>> /\ ~timer

IInv ==
  /\ BrokerTypes /\ OneOpen /\ SessionSetUp /\ Quiet
  /\ PrepareEnds /\ ServedUnlessDisplaced

\* IInv holds initially.
LEMMA InitIInv == Init => IInv
BY VpRuntimeAssumption
DEF Init, IInv, BrokerTypes, ConnStates, OneOpen, SessionSetUp, SetUp, Quiet, Live, PrepareEnds, ServedUnlessDisplaced

USE VpRuntimeAssumption

\* HandleClient keeps IInv.
LEMMA HandleClientStep ==
  ASSUME IInv, NEW c \in Conns, HandleClient(c)
  PROVE  IInv'
<1> USE DEF HandleClient
<1>1. BrokerTypes'
  BY DEF IInv, BrokerTypes, ConnStates, ftpVars
<1>2. OneOpen'
  BY DEF IInv, BrokerTypes, OneOpen, Live
<1>3. SessionSetUp'
  BY DEF IInv, BrokerTypes, SessionSetUp, SetUp
<1>4. Quiet'
  BY DEF IInv, Quiet, ftpVars, captureVars
<1>5. PrepareEnds'
  BY DEF IInv, BrokerTypes, SessionSetUp, SetUp, PrepareEnds
<1>6. ServedUnlessDisplaced'
  BY DEF IInv, BrokerTypes, ServedUnlessDisplaced, OneOpen, Live, SessionSetUp, SetUp
<1> QED BY <1>1, <1>2, <1>3, <1>4, <1>5, <1>6 DEF IInv

\* Connack keeps IInv.
LEMMA ConnackStep ==
  ASSUME IInv, NEW c \in Conns, Connack(c)
  PROVE  IInv'
<1> USE DEF Connack
<1>1. BrokerTypes' /\ OneOpen' /\ SessionSetUp'
  BY DEF IInv, BrokerTypes, ConnStates, OneOpen, Live, SessionSetUp, SetUp, ftpVars
<1>2. Quiet' /\ PrepareEnds'
  BY DEF IInv, Quiet, Live, PrepareEnds, ftpVars, captureVars
<1>3. ServedUnlessDisplaced'
  BY DEF IInv, BrokerTypes, ServedUnlessDisplaced, OneOpen, Live, SessionSetUp, SetUp
<1> QED BY <1>1, <1>2, <1>3 DEF IInv

\* Publish keeps IInv.
LEMMA PublishStep ==
  ASSUME IInv, NEW c \in Conns, NEW s \in Sends, Publish(c, s)
  PROVE  IInv'
<1> USE DEF Publish, SessionIsActive
<1>1. BrokerTypes' /\ OneOpen' /\ SessionSetUp'
  BY DEF IInv, BrokerTypes, ConnStates, OneOpen, Live, SessionSetUp, SetUp, ftpVars
<1>2. Quiet' /\ PrepareEnds'
  BY DEF IInv, BrokerTypes, Quiet, Live, PrepareEnds, ftpVars, captureVars
<1>3. ServedUnlessDisplaced'
  BY DEF IInv, BrokerTypes, ServedUnlessDisplaced
<1> QED BY <1>1, <1>2, <1>3 DEF IInv

\* SendPrintAck keeps IInv.
LEMMA SendPrintAckStep ==
  ASSUME IInv, NEW c \in Conns, SendPrintAck(c)
  PROVE  IInv'
<1> USE DEF SendPrintAck, SessionIsActive
<1>1. BrokerTypes' /\ OneOpen' /\ SessionSetUp'
  BY DEF IInv, BrokerTypes, ConnStates, OneOpen, Live, SessionSetUp, SetUp, ftpVars
<1>2. Quiet' /\ PrepareEnds'
  BY DEF IInv, BrokerTypes, Quiet, Live, PrepareEnds, ftpVars, captureVars
<1>3. ServedUnlessDisplaced'
  BY DEF IInv, BrokerTypes, ServedUnlessDisplaced
<1> QED BY <1>1, <1>2, <1>3 DEF IInv

\* ProjectFile keeps IInv.
LEMMA ProjectFileStep ==
  ASSUME IInv, NEW c \in Conns, ProjectFile(c)
  PROVE  IInv'
<1> USE DEF ProjectFile, SessionIsActive
<1>1. BrokerTypes' /\ OneOpen' /\ SessionSetUp'
  BY DEF IInv, BrokerTypes, ConnStates, OneOpen, Live, SessionSetUp, SetUp, ftpVars
<1>2. Quiet'
  BY DEF IInv, BrokerTypes, Quiet, Live
<1>3. PrepareEnds'
  BY DEF IInv, BrokerTypes, SessionSetUp, PrepareEnds
<1>4. ServedUnlessDisplaced'
  BY DEF IInv, BrokerTypes, ServedUnlessDisplaced
<1> QED BY <1>1, <1>2, <1>3, <1>4 DEF IInv

\* HandlerEnds keeps IInv.
LEMMA HandlerEndsStep ==
  ASSUME IInv, NEW c \in Conns, HandlerEnds(c)
  PROVE  IInv'
<1> USE DEF HandlerEnds
<1>1. BrokerTypes' /\ OneOpen' /\ SessionSetUp'
  BY DEF IInv, BrokerTypes, ConnStates, OneOpen, Live, SessionSetUp, SetUp, ftpVars
<1>2. Quiet' /\ PrepareEnds'
  BY DEF IInv, BrokerTypes, Quiet, Live, PrepareEnds, ftpVars, captureVars
<1>3. ServedUnlessDisplaced'
  BY DEF IInv, BrokerTypes, ServedUnlessDisplaced
<1> QED BY <1>1, <1>2, <1>3 DEF IInv

\* Steps that leave the broker's sessions alone.
LEMMA OtherStep ==
  ASSUME IInv,
         \/ \E s \in Sends : Stor(s) \/ Acquire(s) \/ StorFails(s) \/ Stored(s)
         \/ Finish \/ ExpirePending
  PROVE  IInv'
<1>1. UNCHANGED <<conn, closing, writer, session, overtaken, life>>
  BY DEF Stor, Acquire, StorFails, Stored, Finish, ExpirePending, brokerVars
<1>2. gcode' # "PREPARE" \/ UNCHANGED <<gcode, finish>>
  BY DEF Stor, Acquire, StorFails, Stored, Finish, ExpirePending, brokerVars
<1>3. finish' = finish \/ ~finish'
  BY DEF Stor, Acquire, StorFails, Stored, Finish, ExpirePending, brokerVars
<1>4. BrokerTypes'
  BY <1>1 DEF IInv, BrokerTypes, Stor, Acquire, StorFails, Stored, Finish, ExpirePending, ftpVars
<1>5. Quiet'
  BY <1>1, <1>3 DEF IInv, BrokerTypes, Quiet, Live, Stor, Acquire, StorFails, Stored, Finish, ExpirePending, ftpVars, captureVars
<1>6. OneOpen' /\ SessionSetUp' /\ PrepareEnds' /\ ServedUnlessDisplaced'
  BY <1>1, <1>2 DEF IInv, OneOpen, Live, SessionSetUp, SetUp, PrepareEnds, ServedUnlessDisplaced
<1> QED BY <1>4, <1>5, <1>6 DEF IInv

\* The stages of stop() keep IInv.
LEMMA StopStep ==
  ASSUME IInv, CancelFinish \/ CloseBroker \/ AbortFtp \/ Stop
  PROVE  IInv'
BY DEF IInv, BrokerTypes, ConnStates, OneOpen, SessionSetUp, SetUp, Quiet, Live, PrepareEnds, ServedUnlessDisplaced, CancelFinish, CloseBroker, AbortFtp, Stop, brokerVars, ftpVars, captureVars

\* A step of nothing keeps IInv.
LEMMA StutterStep == IInv /\ UNCHANGED vars => IInv'
BY DEF IInv, BrokerTypes, OneOpen, SessionSetUp, SetUp, Quiet, Live, PrepareEnds, ServedUnlessDisplaced, vars, brokerVars, ftpVars, captureVars

\* IInv is inductive.
LEMMA NextIInv == IInv /\ [Next]_vars => IInv'
<1> SUFFICES ASSUME IInv, [Next]_vars PROVE IInv'
  OBVIOUS
<1>1. CASE UNCHANGED vars
  BY <1>1, StutterStep
<1>2. CASE \E c \in Conns : HandleClient(c) \/ Broker(c) \/ HandlerEnds(c) \/ \E s \in Sends : Publish(c, s)
  BY <1>2, HandleClientStep, ConnackStep, SendPrintAckStep, ProjectFileStep, HandlerEndsStep, PublishStep DEF Broker
<1>3. CASE (\E s \in Sends : Stor(s) \/ Ftp(s)) \/ Finish \/ ExpirePending
  BY <1>3, OtherStep DEF Ftp
<1>4. CASE CancelFinish \/ CloseBroker \/ AbortFtp \/ Stop
  BY <1>4, StopStep
<1> QED BY <1>1, <1>2, <1>3, <1>4 DEF Next

\* IInv is an invariant.
LEMMA IInvAlways == Spec => []IInv
BY InitIInv, NextIInv, PTL DEF Spec

\* "Fresh session => present a clean idle printer": for any number of slicers
\* connecting, displacing each other and publishing, PREPARE is shown to a
\* connected one only while its own command is under way (_reset_print_state,
\* _send_print_ack, _schedule_finish).
THEOREM NoPhantomPrepare == Spec => []PrepareEnds
<1>1. IInv => PrepareEnds
  BY DEF IInv
<1> QED BY <1>1, IInvAlways, PTL

\* For any number of connections, a session that is set up and whose commands are
\* ignored was displaced, or overtaken by one that had been (_handle_client).
THEOREM Served == Spec => []ServedUnlessDisplaced
<1>1. IInv => ServedUnlessDisplaced
  BY DEF IInv
<1> QED BY <1>1, IInvAlways, PTL

\* After stop() no handler, upload, waiting half or timer of the runtime is left.
THEOREM NothingAfterStop == Spec => []StoppedIsQuiet
<1>1. IInv => StoppedIsQuiet
  BY DEF IInv, Quiet, StoppedIsQuiet
<1> QED BY <1>1, IInvAlways, PTL

\* Whatever came before, a waiting half has a timer and a timer has a waiting
\* half (record_upload, record_project_file, _expire_pending, clear).
THEOREM TimerAlwaysSet == Spec => []TimerCovers
<1>1. Init => TimerCovers
  BY DEF Init, TimerCovers
<1>2. TimerCovers /\ [Next]_vars => TimerCovers'
  <2> SUFFICES ASSUME TimerCovers, [Next]_vars PROVE TimerCovers'
    OBVIOUS
  <2>1. CASE UNCHANGED <<pending, timer>>
    BY <2>1 DEF TimerCovers
  <2>2. CASE timer' = (pending' # <<>>)
    BY <2>2 DEF TimerCovers
  <2>3. CASE Stop
    BY <2>3 DEF Stop, TimerCovers
  <2> QED
    BY <2>1, <2>2, <2>3
    DEF Next, vars, captureVars, Broker, Ftp, HandleClient, Connack, Publish, SendPrintAck, ProjectFile, HandlerEnds, Finish, ExpirePending, Stor, Acquire, StorFails, Stored, CancelFinish, CloseBroker, AbortFtp, Record
<1> QED BY <1>1, <1>2, PTL DEF Spec

-------------------------------------------------------------------------------
(* The coordinator's buckets. *)

Half(s, kind) == [send |-> s, kind |-> kind]

OfKind(kind) == {it \in Items : it.kind = kind}

OfKey(k, kind) == {it \in Items : it.kind = kind /\ key[it.send] = k}

\* The limits hold in q.
Limited(q) ==
  /\ \A kind \in Kinds : Cardinality(Bucket(q, kind)) <= MaxPending
  /\ \A k \in Keys, kind \in Kinds : Count(q, k, kind) <= MaxPerKey

\* A half is what its send and its kind make it.
LEMMA HalfProperties ==
  /\ \A s \in Sends, kind \in Kinds :
       Half(s, kind) \in Items /\ Half(s, kind).send = s /\ Half(s, kind).kind = kind
  /\ \A it \in Items :
       it.send \in Sends /\ it.kind \in Kinds /\ it = Half(it.send, it.kind)
BY DEF Half, Items

\* A bucket, and what waits in it with one key, as places of a set of items.
LEMMA BucketPlaces ==
  ASSUME NEW q \in Seq(Items), NEW kind, NEW k
  PROVE  /\ Bucket(q, kind) = Places(q, OfKind(kind))
         /\ Waiting(q, k, kind) = Places(q, OfKey(k, kind))
<1>1. \A i \in DOMAIN q : q[i] \in Items
  OBVIOUS
<1>2. QED
  BY <1>1 DEF Bucket, Waiting, Places, OfKind, OfKey

\* _enforce_per_key_limit and _enforce_total_limit drop the oldest item when
\* there is one too many, never the one just added.
LEMMA LimitProperties ==
  ASSUME NEW T, NEW q \in Seq(T), q # <<>>, NEW S, NEW max \in Nat \ {0}
  PROVE  LET r == Limit(q, Places(q, S), max)
         IN  /\ r \in Seq(T) /\ r # <<>> /\ r[Len(r)] = q[Len(q)] /\ Shrinks(r, q)
             /\ Cardinality(Places(q, S)) <= max + 1 => Cardinality(Places(r, S)) <= max
<1> DEFINE P == Places(q, S)
<1>1. IsFiniteSet(P) /\ Cardinality(P) \in Nat /\ P \subseteq 1 .. Len(q)
  BY PlacesFinite
<1>2. CASE Cardinality(P) > max
  <2> DEFINE i == Min(P)
             r == RemoveAt(q, i)
  <2>1. P # {} /\ P \subseteq Nat
    <3>1. P # {}
      <4> SUFFICES ASSUME P = {} PROVE FALSE
        OBVIOUS
      <4>1. Cardinality(P) = 0
        BY FS_EmptySet
      <4>2. QED
        BY <1>2, <4>1
    <3>2. 1 .. Len(q) \subseteq Nat
      OBVIOUS
    <3>3. QED
      BY <1>1, <3>1, <3>2
  <2> HIDE DEF P
  <2>2. i \in P /\ \A m \in P : i <= m
    <3>1. \E n \in P : \A m \in P : n <= m
      BY <2>1, LeastElement
    <3>2. QED
      BY <3>1 DEF Min
  <2> HIDE DEF i
  <2>3. i # Len(q)
    <3> SUFFICES ASSUME i = Len(q) PROVE FALSE
      OBVIOUS
    <3>1. \A m \in P : m = i
      <4>1. \A m \in P : m \in 1 .. Len(q) /\ Len(q) <= m
        BY <1>1, <2>2
      <4>2. QED
        BY <4>1
    <3>2. P = {i}
      BY <2>2, <3>1
    <3>3. Cardinality(P) = 1
      BY <3>2, FS_Singleton
    <3>4. QED
      BY <1>2, <3>3
  <2>4. i \in 1 .. Len(q) /\ i \in Places(q, S)
    BY <1>1, <2>2 DEF P
  <2>5. /\ r \in Seq(T) /\ r # <<>> /\ r[Len(r)] = q[Len(q)] /\ Shrinks(r, q)
        /\ Cardinality(Places(r, S)) <= Cardinality(Places(q, S)) - 1
    BY <2>3, <2>4, RemoveAtShrinks
  <2>6. r = Limit(q, Places(q, S), max)
    BY <1>2 DEF Limit, P, i
  <2> HIDE DEF r
  <2>7. Cardinality(Places(q, S)) <= max + 1 => Cardinality(Places(r, S)) <= max
    <3>1. r \in Seq(T) /\ Cardinality(Places(q, S)) \in Nat
      BY <1>1, <2>5 DEF P
    <3>2. Cardinality(Places(r, S)) \in Nat
      BY <3>1, PlacesFinite
    <3> QED
      BY <2>5, <3>1, <3>2
  <2>8. QED
    BY <2>5, <2>6, <2>7
<1>3. CASE ~(Cardinality(P) > max)
  <2>1. Limit(q, Places(q, S), max) = q
    BY <1>3 DEF Limit
  <2>2. Cardinality(Places(q, S)) <= max
    BY <1>1, <1>3
  <2>3. QED
    BY <2>1, <2>2, ShrinksReflexive
<1>4. QED
  BY <1>2, <1>3

\* A bucket with a new item in it: the item is there, last, and the limits hold.
LEMMA AddedProperties ==
  ASSUME pending \in Seq(Items), Limited(pending), key \in [Sends -> Keys],
         NEW s \in Sends, NEW kind \in Kinds, NEW n \in 0 .. Len(pending)
  PROVE  LET q == Added(s, kind, n)
         IN  /\ q \in Seq(Items) /\ Half(s, kind) \in ToSet(q)
             /\ Shrinks(q, Append(pending, Half(s, kind))) /\ Limited(q)
<1> DEFINE x == Half(s, kind)
           kept == Prune(pending, n)
           grown == Append(kept, x)
           first == LimitKey(grown, key[s], kind)
           q == LimitTotal(first, kind)
<1>1. x \in Items /\ x.send = s /\ x.kind = kind /\ key[s] \in Keys
  BY HalfProperties
<1>2. q = Added(s, kind, n)
  BY DEF Added, Half
<1> HIDE DEF x
<1>3. kept \in Seq(Items) /\ Shrinks(kept, pending)
  BY SuffixShrinks DEF Prune
<1> HIDE DEF kept
<1>4. grown \in Seq(Items) /\ grown # <<>> /\ grown[Len(grown)] = x
  BY <1>1, <1>3
<1>5. Shrinks(grown, Append(pending, x))
  BY <1>1, <1>3, AppendShrinks
<1>6. ASSUME NEW S
      PROVE  /\ Cardinality(Places(grown, S)) <= Cardinality(Places(pending, S)) + 1
             /\ x \notin S => Cardinality(Places(grown, S)) <= Cardinality(Places(pending, S))
  <2> DEFINE a == Cardinality(Places(pending, S))
             b == Cardinality(Places(kept, S))
             c == Cardinality(Places(grown, S))
  <2>1. b <= a
    BY <1>3, ShrinksPlaces
  <2>2. c <= b + 1 /\ (x \notin S => c <= b)
    BY <1>1, <1>3, AppendPlaces
  <2>3. a \in Nat /\ b \in Nat /\ c \in Nat
    BY <1>3, <1>4, PlacesFinite
  <2> HIDE DEF a, b, c
  <2>4. c <= a + 1 /\ (x \notin S => c <= a)
    BY <2>1, <2>2, <2>3
  <2>5. QED
    BY <2>4 DEF a, c
<1> HIDE DEF grown
<1>7. first = Limit(grown, Places(grown, OfKey(key[s], kind)), MaxPerKey)
  BY <1>4, BucketPlaces DEF LimitKey
<1>8. /\ first \in Seq(Items) /\ first # <<>> /\ first[Len(first)] = x /\ Shrinks(first, grown)
      /\ Cardinality(Places(grown, OfKey(key[s], kind))) <= MaxPerKey + 1
           => Cardinality(Places(first, OfKey(key[s], kind))) <= MaxPerKey
  BY <1>4, <1>7, LimitProperties, VpRuntimeAssumption
<1> HIDE DEF first
<1>9. q = Limit(first, Places(first, OfKind(kind)), MaxPending)
  BY <1>8, BucketPlaces DEF LimitTotal
<1>10. /\ q \in Seq(Items) /\ q # <<>> /\ q[Len(q)] = x /\ Shrinks(q, first)
       /\ Cardinality(Places(first, OfKind(kind))) <= MaxPending + 1
            => Cardinality(Places(q, OfKind(kind))) <= MaxPending
  BY <1>8, <1>9, LimitProperties, VpRuntimeAssumption
<1> HIDE DEF q
<1>11. x \in ToSet(q)
  <2>1. Len(q) \in DOMAIN q
    BY <1>10
  <2>2. QED
    BY <1>10, <2>1 DEF ToSet
<1>12. Shrinks(q, Append(pending, x))
  BY <1>5, <1>8, <1>10, ShrinksTransitive
<1>13. ASSUME NEW S
       PROVE  /\ Cardinality(Places(first, S)) <= Cardinality(Places(grown, S))
              /\ Cardinality(Places(q, S)) <= Cardinality(Places(first, S))
              /\ Cardinality(Places(q, S)) \in Nat /\ Cardinality(Places(first, S)) \in Nat
              /\ Cardinality(Places(grown, S)) \in Nat /\ Cardinality(Places(pending, S)) \in Nat
  BY <1>4, <1>8, <1>10, ShrinksPlaces, PlacesFinite
<1>14. ASSUME NEW any \in Kinds PROVE Cardinality(Bucket(q, any)) <= MaxPending
  <2> DEFINE S == OfKind(any)
  <2>1. Cardinality(Places(pending, S)) <= MaxPending
    BY BucketPlaces DEF Limited
  <2>2. CASE any = kind
    <3>1. Cardinality(Places(first, S)) <= MaxPending + 1
      BY <1>6, <1>13, <2>1, VpRuntimeAssumption
    <3>2. Cardinality(Places(q, S)) <= MaxPending
      BY <1>10, <2>2, <3>1
    <3>3. QED
      BY <1>10, <3>2, BucketPlaces
  <2>3. CASE any # kind
    <3>1. x \notin S
      BY <1>1, <2>3 DEF OfKind
    <3>2. Cardinality(Places(q, S)) <= MaxPending
      BY <1>6, <1>13, <2>1, <3>1, VpRuntimeAssumption
    <3>3. QED
      BY <1>10, <3>2, BucketPlaces
  <2>4. QED
    BY <2>2, <2>3
<1>15. ASSUME NEW k \in Keys, NEW any \in Kinds PROVE Count(q, k, any) <= MaxPerKey
  <2> DEFINE S == OfKey(k, any)
  <2>1. Cardinality(Places(pending, S)) <= MaxPerKey
    BY BucketPlaces DEF Limited, Count
  <2>2. CASE any = kind /\ k = key[s]
    <3>1. Cardinality(Places(grown, S)) <= MaxPerKey + 1
      BY <1>6, <1>13, <2>1, VpRuntimeAssumption
    <3>2. Cardinality(Places(first, S)) <= MaxPerKey
      BY <1>8, <2>2, <3>1
    <3>3. Cardinality(Places(q, S)) <= MaxPerKey
      BY <1>13, <3>2, VpRuntimeAssumption
    <3>4. QED
      BY <1>10, <3>3, BucketPlaces DEF Count
  <2>3. CASE any # kind \/ k # key[s]
    <3>1. x \notin S
      BY <1>1, <2>3 DEF OfKey
    <3>2. Cardinality(Places(q, S)) <= MaxPerKey
      BY <1>6, <1>13, <2>1, <3>1, VpRuntimeAssumption
    <3>3. QED
      BY <1>10, <3>2, BucketPlaces DEF Count
  <2>4. QED
    BY <2>2, <2>3
<1>16. Limited(q)
  BY <1>14, <1>15 DEF Limited
<1>17. QED
  BY <1>2, <1>10, <1>11, <1>12, <1>16 DEF x

\* Fewer places, the same limits.
LEMMA LimitedShrinks ==
  ASSUME NEW q \in Seq(Items), NEW r \in Seq(Items), Limited(q), Shrinks(r, q)
  PROVE  Limited(r)
<1>1. ASSUME NEW S, NEW max \in Nat, Cardinality(Places(q, S)) <= max
      PROVE  Cardinality(Places(r, S)) <= max
  <2>1. Cardinality(Places(r, S)) <= Cardinality(Places(q, S))
    BY ShrinksPlaces
  <2>2. Cardinality(Places(r, S)) \in Nat /\ Cardinality(Places(q, S)) \in Nat
    BY PlacesFinite
  <2>3. QED
    BY <1>1, <2>1, <2>2
<1>2. ASSUME NEW kind \in Kinds PROVE Cardinality(Bucket(r, kind)) <= MaxPending
  <2>1. Cardinality(Places(q, OfKind(kind))) <= MaxPending
    BY BucketPlaces DEF Limited
  <2>2. Cardinality(Places(r, OfKind(kind))) <= MaxPending
    BY <1>1, <2>1, VpRuntimeAssumption
  <2>3. QED
    BY <2>2, BucketPlaces
<1>3. ASSUME NEW k \in Keys, NEW kind \in Kinds PROVE Count(r, k, kind) <= MaxPerKey
  <2>1. Cardinality(Places(q, OfKey(k, kind))) <= MaxPerKey
    BY BucketPlaces DEF Limited, Count
  <2>2. Cardinality(Places(r, OfKey(k, kind))) <= MaxPerKey
    BY <1>1, <2>1, VpRuntimeAssumption
  <2>3. QED
    BY <2>2, BucketPlaces DEF Count
<1>4. QED
  BY <1>2, <1>3 DEF Limited

\* Something waits when the count says so, and _try_capture takes one of it.
LEMMA SomeWaits ==
  ASSUME NEW q \in Seq(Items), NEW k, NEW kind \in Kinds
  PROVE  /\ Count(q, k, kind) \in Nat
         /\ Count(q, k, kind) > 0 <=> \E it \in ToSet(q) : it.kind = kind /\ key[it.send] = k
         /\ Count(q, k, kind) > 0 =>
              LET t == TheSend(q, k, kind)
              IN  t \in Sends /\ Half(t, kind) \in ToSet(q) /\ key[t] = k
<1> DEFINE W == Waiting(q, k, kind)
<1>1. IsFiniteSet(W) /\ Cardinality(W) \in Nat /\ W \subseteq 1 .. Len(q)
  BY BucketPlaces, PlacesFinite
<1>2. Cardinality(W) > 0 <=> W # {}
  BY <1>1, FS_EmptySet
<1>3. W # {} <=> \E it \in ToSet(q) : it.kind = kind /\ key[it.send] = k
  BY DEF Waiting, Bucket, ToSet
<1>4. ASSUME W # {}
      PROVE  LET t == TheSend(q, k, kind)
             IN  t \in Sends /\ Half(t, kind) \in ToSet(q) /\ key[t] = k
  <2> DEFINE i == Min(W)
  <2>1. i \in W
    <3>1. W \subseteq Nat
      BY <1>1
    <3>2. \E n \in W : \A m \in W : n <= m
      BY <1>4, <3>1, LeastElement
    <3>3. QED
      BY <3>2 DEF Min
  <2>2. TheSend(q, k, kind) = q[i].send
    BY DEF TheSend
  <2> HIDE DEF i
  <2>3. i \in DOMAIN q /\ q[i].kind = kind /\ key[q[i].send] = k
    BY <2>1 DEF Waiting, Bucket
  <2>4. q[i] \in Items /\ q[i] \in ToSet(q)
    BY <2>3 DEF ToSet
  <2>5. q[i].send \in Sends /\ q[i] = Half(q[i].send, kind)
    BY <2>3, <2>4, HalfProperties
  <2>6. QED
    BY <2>2, <2>3, <2>4, <2>5
<1>5. QED
  BY <1>1, <1>2, <1>3, <1>4 DEF Count

\* Of a send alone with its key, one half waits at most.
LEMMA OneWaits ==
  ASSUME NEW q \in Seq(Items), NEW s \in Sends, NEW kind \in Kinds, key \in [Sends -> Keys],
         \A t \in Sends \ {s} : key[t] # key[s],
         Once(q, Half(s, kind)), Half(s, kind) \in ToSet(q)
  PROVE  Count(q, key[s], kind) = 1 /\ TheSend(q, key[s], kind) = s
<1> DEFINE W == Waiting(q, key[s], kind)
           x == Half(s, kind)
<1>1. x \in Items /\ x.send = s /\ x.kind = kind
  BY HalfProperties
<1>2. PICK i \in DOMAIN q : q[i] = x
  BY DEF ToSet
<1>3. ASSUME NEW j \in W PROVE j = i
  <2>1. j \in DOMAIN q /\ q[j] \in Items /\ q[j].kind = kind /\ key[q[j].send] = key[s]
    BY DEF Waiting, Bucket
  <2>2. q[j].send \in Sends /\ q[j] = Half(q[j].send, kind)
    BY <2>1, HalfProperties
  <2>3. q[j] = x
    BY <2>1, <2>2
  <2>4. QED
    BY <1>2, <2>1, <2>3 DEF Once
<1>4. i \in W
  BY <1>1, <1>2 DEF Waiting, Bucket
<1>5. W = {i} /\ i \in Nat
  <2>1. W = {i}
    BY <1>3, <1>4
  <2>2. DOMAIN q \subseteq Nat
    OBVIOUS
  <2>3. QED
    BY <2>1, <2>2
<1> HIDE DEF W
<1>6. Cardinality(W) = 1
  BY <1>5, FS_Singleton
<1>7. Min(W) = i
  BY <1>5 DEF Min
<1>8. QED
  BY <1>1, <1>2, <1>6, <1>7 DEF Count, TheSend, W

\* What _try_capture leaves once it has found a match.
LEMMA WithoutProperties ==
  ASSUME NEW q \in Seq(Items), NEW k
  PROVE  /\ Without(q, k) \in Seq(Items) /\ Shrinks(Without(q, k), q)
         /\ ToSet(Without(q, k)) = {it \in ToSet(q) : key[it.send] # k}
<1> DEFINE S == {it \in ToSet(q) : key[it.send] # k}
<1>1. Without(q, k) = Keep(q, S)
  BY DEF Without
<1> HIDE DEF S
<1>2. Keep(q, S) \in Seq(Items) /\ ToSet(Keep(q, S)) = ToSet(q) \cap S /\ Shrinks(Keep(q, S), q)
  BY KeepProperties, KeepShrinks
<1>3. ToSet(q) \cap S = S
  BY DEF S
<1>4. QED
  BY <1>1, <1>2, <1>3 DEF S

\* What is lost when a bucket changes.
LEMMA DroppedSends ==
  ASSUME NEW q \in Seq(Items), NEW r
  PROVE  /\ Dropped(q, r) \subseteq Sends
         /\ \A it \in ToSet(q) : it \in ToSet(r) \/ it.send \in Dropped(q, r)
<1>1. ToSet(q) \subseteq Items
  BY DEF ToSet
<1>2. QED
  BY <1>1, HalfProperties DEF Dropped, SendsIn

\* What the coordinator captures: one half of each kind, of one key.
Captures(q, k, u, p) ==
  /\ u \in Sends /\ Half(u, "upload") \in ToSet(q) /\ key[u] = k
  /\ p \in Sends /\ Half(p, "project_file") \in ToSet(q) /\ key[p] = k
  /\ Assembled(u, p)

\* What record_upload and record_project_file come to, q being the bucket with
\* the new half in it.
Recorded(q, s, kind) ==
  /\ q \in Seq(Items) /\ Half(s, kind) \in ToSet(q) /\ Limited(q)
  /\ Shrinks(q, Append(pending, Half(s, kind)))
  /\ pending' = IF Matched(q, key[s]) THEN Without(q, key[s]) ELSE q
  /\ \/ captured' = captured
     \/ /\ Matched(q, key[s])
        /\ \E u, p \in Sends : Captures(q, key[s], u, p) /\ captured' = captured \cup {<<u, p>>}
  /\ Single(q, key[s]) /\ TheSend(q, key[s], "upload") = s /\ TheSend(q, key[s], "project_file") = s
       => <<s, s>> \in captured' \/ s \in lost'
  /\ lost \cup Dropped(pending, q) \subseteq lost' /\ lost' \subseteq Sends
  /\ commanded' = IF kind = "project_file" THEN commanded \cup {s} ELSE commanded
  /\ timer' \in BOOLEAN

\* record_upload and record_project_file are as Recorded says.
LEMMA RecordIs ==
  ASSUME pending \in Seq(Items), Limited(pending), key \in [Sends -> Keys], lost \subseteq Sends,
         NEW s \in Sends, NEW kind \in Kinds, Record(s, kind)
  PROVE  \E q : Recorded(q, s, kind)
<1> DEFINE k == key[s]
<1>1. PICK n \in 0 .. Len(pending) :
        LET q == Added(s, kind, n)
            u == TheSend(q, k, "upload")
            p == TheSend(q, k, "project_file")
            fits == Single(q, k) /\ Assembled(u, p)
        IN  \E good \in {TRUE, ~fits} :
              /\ pending' = IF Matched(q, k) THEN Without(q, k) ELSE q
              /\ captured' = IF fits /\ good THEN captured \cup {<<u, p>>} ELSE captured
              /\ timer' = (pending' # <<>>)
              /\ commanded' = IF kind = "project_file" THEN commanded \cup {s} ELSE commanded
              /\ lost' = lost \cup Dropped(pending, q) \cup (IF fits /\ ~good THEN {u, p} ELSE {})
  BY Zenon DEF Record
<1> DEFINE q == Added(s, kind, n)
           u == TheSend(q, k, "upload")
           p == TheSend(q, k, "project_file")
           fits == Single(q, k) /\ Assembled(u, p)
<1>2. PICK good \in {TRUE, ~fits} :
              /\ pending' = IF Matched(q, k) THEN Without(q, k) ELSE q
              /\ captured' = IF fits /\ good THEN captured \cup {<<u, p>>} ELSE captured
              /\ timer' = (pending' # <<>>)
              /\ commanded' = IF kind = "project_file" THEN commanded \cup {s} ELSE commanded
              /\ lost' = lost \cup Dropped(pending, q) \cup (IF fits /\ ~good THEN {u, p} ELSE {})
  BY <1>1, Zenon
<1>3. /\ q \in Seq(Items) /\ Half(s, kind) \in ToSet(q) /\ Limited(q)
      /\ Shrinks(q, Append(pending, Half(s, kind)))
  BY AddedProperties
<1> HIDE DEF q
<1>4. Single(q, k) => Matched(q, k)
  BY DEF Single, Matched
<1>5. Single(q, k) /\ Assembled(u, p) => Captures(q, k, u, p)
  <2> SUFFICES ASSUME Single(q, k), Assembled(u, p) PROVE Captures(q, k, u, p)
    OBVIOUS
  <2>1. u \in Sends /\ Half(u, "upload") \in ToSet(q) /\ key[u] = k
    BY <1>3, SomeWaits DEF Single, Kinds
  <2>2. p \in Sends /\ Half(p, "project_file") \in ToSet(q) /\ key[p] = k
    BY <1>3, SomeWaits DEF Single, Kinds
  <2> HIDE DEF u, p
  <2>3. QED
    BY <2>1, <2>2 DEF Captures
<1> HIDE DEF u, p
<1>6. fits => u \in Sends /\ p \in Sends
  BY <1>5 DEF Captures
<1>7. Dropped(pending, q) \subseteq Sends
  BY DroppedSends
<1>8. lost' \subseteq Sends /\ lost \cup Dropped(pending, q) \subseteq lost'
  <2> HIDE DEF fits
  <2>1. QED
    BY <1>2, <1>6, <1>7
<1>9. \/ captured' = captured
      \/ /\ Matched(q, k)
         /\ \E a, b \in Sends : Captures(q, k, a, b) /\ captured' = captured \cup {<<a, b>>}
  <2>1. CASE fits /\ good
    <3>1. captured' = captured \cup {<<u, p>>}
      BY <1>2, <2>1
    <3>2. QED
      BY <1>4, <1>5, <1>6, <2>1, <3>1
  <2>2. CASE ~(fits /\ good)
    BY <1>2, <2>2
  <2>3. QED
    BY <2>1, <2>2
<1>10. ASSUME Single(q, k), u = s, p = s
       PROVE  <<s, s>> \in captured' \/ s \in lost'
  <2>1. fits
    BY <1>10 DEF Assembled
  <2>2. CASE good
    <3>1. captured' = captured \cup {<<u, p>>}
      BY <1>2, <2>1, <2>2
    <3>2. QED
      BY <1>10, <3>1
  <2>3. CASE ~good
    <3>1. lost' = lost \cup Dropped(pending, q) \cup {u, p}
      BY <1>2, <2>1, <2>3
    <3>2. QED
      BY <1>10, <3>1
  <2>4. QED
    BY <2>2, <2>3
<1>11. timer' \in BOOLEAN
  BY <1>2
<1>12. QED
  <2>1. Recorded(q, s, kind)
    BY <1>2, <1>3, <1>8, <1>9, <1>10, <1>11 DEF Recorded, u, p
  <2>2. QED
    BY <2>1

-------------------------------------------------------------------------------
(* Types and limits. *)

CaptureTypes ==
  /\ key \in [Sends -> Keys] /\ pending \in Seq(Items) /\ Limited(pending) /\ timer \in BOOLEAN
  /\ captured \subseteq Sends \X Sends /\ commanded \subseteq Sends /\ lost \subseteq Sends

ServerTypes ==
  /\ key \in [Sends -> Keys] /\ md5 \subseteq Sends
  /\ life \in {"up", "closing", "broker_closed", "ftp_aborted", "stopped"}
  /\ conn \in [Conns -> {"new", "connecting", "ready", "puback", "ack", "gone"}]
  /\ pub \in [Conns -> Sends \cup {Nil}]
  /\ \A c \in Conns : pub[c] # Nil <=> conn[c] \in {"puback", "ack"}
  /\ closing \subseteq Conns /\ writer \in Conns \cup {Nil} /\ session \in Conns \cup {Nil}
  /\ gcode \in {"IDLE", "PREPARE", "FINISH"} /\ finish \in BOOLEAN
  /\ upload \in [Sends -> {"none", "waiting", "receiving", "done", "failed"}]
  /\ \A s \in Sends : upload[s] = "receiving" <=> slot = s

\* The type invariant is that of the servers and that of the coordinator.
LEMMA TypeParts == TypeOK <=> ServerTypes /\ CaptureTypes
BY DEF TypeOK, ServerTypes, CaptureTypes, Limited

\* The limits speak of the queue and of the keys only.
LEMMA SameLimits ==
  ASSUME Limited(pending), UNCHANGED <<key, pending>>
  PROVE  Limited(pending)'
BY DEF Limited, Count, Waiting, Bucket

\* The limits hold in the next state when they hold of the new queue.
LEMMA LimitedNext ==
  ASSUME UNCHANGED key, NEW q, Limited(q), pending' = q
  PROVE  Limited(pending)'
BY DEF Limited, Count, Waiting, Bucket

\* A recorded half keeps the coordinator's types and limits.
LEMMA RecordTypes ==
  ASSUME CaptureTypes, NEW s \in Sends, NEW kind \in Kinds, Record(s, kind), UNCHANGED key
  PROVE  CaptureTypes'
<1>1. PICK q : Recorded(q, s, kind)
  BY RecordIs DEF CaptureTypes
<1>2. pending' \in Seq(Items) /\ Limited(pending')
  <2>1. q \in Seq(Items) /\ Limited(q)
    BY <1>1 DEF Recorded
  <2>2. Without(q, key[s]) \in Seq(Items) /\ Limited(Without(q, key[s]))
    BY <2>1, WithoutProperties, LimitedShrinks
  <2>3. pending' = Without(q, key[s]) \/ pending' = q
    BY <1>1 DEF Recorded
  <2>4. QED
    BY <2>1, <2>2, <2>3
<1>3. Limited(pending)'
  BY <1>2, LimitedNext
<1>4. captured' \subseteq Sends \X Sends
  BY <1>1 DEF Recorded, CaptureTypes
<1>5. commanded' \subseteq Sends /\ lost' \subseteq Sends /\ timer' \in BOOLEAN
  BY <1>1 DEF Recorded, CaptureTypes
<1>6. QED
  BY <1>2, <1>3, <1>4, <1>5 DEF CaptureTypes

\* Expiry keeps the coordinator's types and limits.
LEMMA ExpireTypes ==
  ASSUME CaptureTypes, ExpirePending
  PROVE  CaptureTypes'
<1>1. PICK n \in 1 .. Len(pending) : pending' = Prune(pending, n)
  BY DEF ExpirePending
<1>2. pending' \in Seq(Items) /\ Shrinks(pending', pending)
  BY <1>1, SuffixShrinks DEF CaptureTypes, Prune
<1>3. Limited(pending')
  BY <1>2, LimitedShrinks DEF CaptureTypes
<1>4. Dropped(pending, pending') \subseteq Sends
  BY DroppedSends DEF CaptureTypes
<1>5. UNCHANGED <<key, captured, commanded>> /\ lost' = lost \cup Dropped(pending, pending')
      /\ timer' \in BOOLEAN
  BY DEF ExpirePending, fixedVars
<1>6. Limited(pending)'
  BY <1>3, <1>5, LimitedNext
<1>7. QED
  BY <1>2, <1>4, <1>5, <1>6 DEF CaptureTypes

\* Empty buckets are within the limits.
LEMMA NoneWaits == Limited(<<>>)
<1>1. ASSUME NEW kind, NEW k PROVE Cardinality(Bucket(<<>>, kind)) = 0 /\ Count(<<>>, k, kind) = 0
  <2>1. Bucket(<<>>, kind) = {} /\ Waiting(<<>>, k, kind) = {}
    BY DEF Bucket, Waiting
  <2>2. QED
    BY <2>1, FS_EmptySet DEF Count
<1>2. QED
  BY <1>1, VpRuntimeAssumption DEF Limited

\* stop() keeps the coordinator's types and limits.
LEMMA StopTypes ==
  ASSUME CaptureTypes, Stop
  PROVE  CaptureTypes'
<1>1. UNCHANGED <<key, captured, commanded>> /\ pending' = <<>> /\ timer' = FALSE
      /\ lost' = lost \cup SendsIn(ToSet(pending))
  BY DEF Stop, fixedVars
<1>2. SendsIn(ToSet(pending)) \subseteq Sends
  <2>1. ToSet(pending) \subseteq Items
    BY DEF ToSet, CaptureTypes
  <2>2. QED
    BY <2>1, HalfProperties DEF SendsIn
<1>3. <<>> \in Seq(Items) /\ Limited(<<>>)
  BY NoneWaits
<1>4. Limited(pending)'
  BY <1>1, <1>3, LimitedNext
<1>5. QED
  BY <1>1, <1>2, <1>3, <1>4 DEF CaptureTypes

\* So does a step that leaves the coordinator alone.
LEMMA SameTypes ==
  ASSUME CaptureTypes, UNCHANGED <<key, captureVars>>
  PROVE  CaptureTypes'
<1>1. UNCHANGED <<pending, timer, captured, commanded, lost>>
  BY DEF captureVars
<1>2. Limited(pending)'
  BY <1>1, SameLimits DEF CaptureTypes
<1>3. QED
  BY <1>1, <1>2 DEF CaptureTypes

\* A step of the servers keeps their types, whatever the coordinator does.
LEMMA NextServerTypes ==
  ASSUME ServerTypes, [Next]_vars
  PROVE  ServerTypes'
<1> USE DEF ServerTypes
<1>1. CASE UNCHANGED vars
  BY <1>1 DEF vars, fixedVars, brokerVars, ftpVars
<1>2. ASSUME NEW c \in Conns, HandleClient(c) PROVE ServerTypes'
  BY <1>2 DEF HandleClient, fixedVars, ftpVars
<1>3. ASSUME NEW c \in Conns, Connack(c) PROVE ServerTypes'
  BY <1>3 DEF Connack, fixedVars, ftpVars
<1>4. ASSUME NEW c \in Conns, NEW s \in Sends, Publish(c, s) PROVE ServerTypes'
  BY <1>4 DEF Publish, fixedVars, ftpVars
<1>5. ASSUME NEW c \in Conns, SendPrintAck(c) PROVE ServerTypes'
  BY <1>5 DEF SendPrintAck, fixedVars, ftpVars
<1>6. ASSUME NEW c \in Conns, ProjectFile(c) PROVE ServerTypes'
  BY <1>6 DEF ProjectFile, fixedVars, ftpVars
<1>7. ASSUME NEW c \in Conns, HandlerEnds(c) PROVE ServerTypes'
  BY <1>7 DEF HandlerEnds, fixedVars, ftpVars
<1>8. ASSUME NEW s \in Sends, Stor(s) \/ Acquire(s) \/ StorFails(s) PROVE ServerTypes'
  BY <1>8 DEF Stor, Acquire, StorFails, fixedVars, brokerVars
<1>9. ASSUME NEW s \in Sends, Stored(s) PROVE ServerTypes'
  BY <1>9 DEF Stored, fixedVars
<1>10. CASE Finish \/ ExpirePending
  BY <1>10 DEF Finish, ExpirePending, fixedVars, brokerVars, ftpVars
<1>11. CASE CancelFinish \/ AbortFtp
  BY <1>11 DEF CancelFinish, AbortFtp, fixedVars, brokerVars, ftpVars
<1>12. CASE CloseBroker
  BY <1>12 DEF CloseBroker, Live, fixedVars, ftpVars
<1>13. CASE Stop
  BY <1>13 DEF Stop, fixedVars, brokerVars
<1>14. QED
  BY <1>1, <1>2, <1>3, <1>4, <1>5, <1>6, <1>7, <1>8, <1>9, <1>10, <1>11, <1>12, <1>13 DEF Next, Broker, Ftp

\* Every step keeps the coordinator's types and limits.
LEMMA NextCaptureTypes ==
  ASSUME TypeOK, [Next]_vars
  PROVE  CaptureTypes'
<1>1. ServerTypes /\ CaptureTypes
  BY TypeParts
<1>2. CASE UNCHANGED <<key, captureVars>>
  BY <1>1, <1>2, SameTypes
<1>3. ASSUME NEW c \in Conns, ProjectFile(c) PROVE CaptureTypes'
  <2>1. UNCHANGED key
    BY <1>3 DEF ProjectFile, fixedVars
  <2>2. pub[c] \in Sends
    BY <1>1, <1>3 DEF ProjectFile, ServerTypes
  <2>3. CASE Record(pub[c], "project_file")
    BY <1>1, <2>1, <2>2, <2>3, RecordTypes DEF Kinds
  <2>4. CASE UNCHANGED captureVars
    BY <1>1, <2>1, <2>4, SameTypes
  <2>5. QED
    BY <1>3, <2>3, <2>4 DEF ProjectFile
<1>4. ASSUME NEW s \in Sends, Stored(s) PROVE CaptureTypes'
  <2>1. Record(s, "upload") /\ UNCHANGED key
    BY <1>4 DEF Stored, fixedVars
  <2>2. QED
    BY <1>1, <2>1, RecordTypes DEF Kinds
<1>5. CASE ExpirePending \/ Stop
  BY <1>1, <1>5, ExpireTypes, StopTypes
<1>6. QED
  BY <1>2, <1>3, <1>4, <1>5
  DEF Next, vars, fixedVars, Broker, Ftp, HandleClient, Connack, Publish, SendPrintAck, HandlerEnds, Finish, Stor, Acquire, StorFails, CancelFinish, CloseBroker, AbortFtp

\* A runtime starts with its types and within its limits.
LEMMA InitTypes == Init => TypeOK
<1> SUFFICES ASSUME Init PROVE TypeOK
  OBVIOUS
<1>1. ServerTypes
  BY DEF Init, ServerTypes
<1>2. Limited(<<>>) /\ <<>> \in Seq(Items)
  BY NoneWaits
<1>3. pending = <<>>
  BY DEF Init
<1>4. CaptureTypes
  BY <1>2, <1>3 DEF Init, CaptureTypes
<1>5. QED
  BY <1>1, <1>4, TypeParts

\* For any number of slicers and any limits: the buckets of the coordinator never
\* hold more than max_pending halves, nor more than max_pending_per_key of one
\* name, whatever arrives, expires, is captured or evicted
\* (_enforce_per_key_limit, _enforce_total_limit), and the upload semaphore is
\* held by exactly the upload that is being received (cmd_stor).
THEOREM TypesAndLimits == Spec => []TypeOK
<1>1. TypeOK /\ [Next]_vars => TypeOK'
  <2> SUFFICES ASSUME TypeOK, [Next]_vars PROVE TypeOK'
    OBVIOUS
  <2>1. ServerTypes' /\ CaptureTypes'
    BY TypeParts, NextServerTypes, NextCaptureTypes
  <2>2. QED
    BY <2>1, TypeParts, PTL
<1>2. QED
  BY InitTypes, <1>1, PTL DEF Spec

-------------------------------------------------------------------------------
(* Captures. *)

\* An upload waits once, complete, and never after it was captured.
UploadsOnce ==
  /\ \A s \in Sends : Once(pending, Half(s, "upload"))
  /\ \A s \in Sends : Half(s, "upload") \in ToSet(pending) => upload[s] = "done"
  /\ \A x \in captured : upload[x[1]] = "done" /\ Half(x[1], "upload") \notin ToSet(pending)

InFlight(s) == \E c \in Conns : pub[c] = s

\* A send's commands, handled and under way, are no more than were published.
Commands ==
  /\ publishes \in [Sends -> Nat]
  /\ \A s \in Sends : InFlight(s) \/ s \in commanded => publishes[s] >= 1
  /\ \A s \in Sends : InFlight(s) /\ s \in commanded => publishes[s] >= 2
  /\ \A c, d \in Conns : c # d /\ pub[c] = pub[d] /\ pub[c] # Nil => publishes[pub[c]] >= 2
  /\ \A s \in Sends : Half(s, "project_file") \in ToSet(pending) => s \in commanded
  /\ \A s \in Sends : publishes[s] <= 1 => Once(pending, Half(s, "project_file"))

\* No two halves wait that would make a capture.
Unmatched ==
  \A x, y \in ToSet(pending) :
    x.kind = "upload" /\ y.kind = "project_file" => key[x.send] # key[y.send]

Lone(s) == publishes[s] <= 1 /\ \A t \in Sends \ {s} : key[t] # key[s]

\* A half of a send that nothing interferes with waits until it is captured or lost.
HalvesWait ==
  \A s \in Sends : Lone(s) /\ s \notin lost /\ <<s, s>> \notin captured =>
    /\ upload[s] = "done" => Half(s, "upload") \in ToSet(pending)
    /\ s \in commanded => Half(s, "project_file") \in ToSet(pending)

CInv == UploadsOnce /\ Commands /\ Unmatched /\ HalvesWait /\ OneSend

\* What a recorded half does to those that wait.
LEMMA RecordedMembers ==
  ASSUME CaptureTypes, Unmatched, NEW s \in Sends, NEW kind \in Kinds, NEW q, Recorded(q, s, kind)
  PROVE  /\ ToSet(q) \subseteq ToSet(pending) \cup {Half(s, kind)}
         /\ ToSet(pending') \subseteq ToSet(q) /\ ToSet(q) \subseteq Items
         /\ \A y : Once(pending, y) /\ (y = Half(s, kind) => Half(s, kind) \notin ToSet(pending))
              => Once(q, y) /\ Once(pending', y)
         /\ \A it \in ToSet(pending) : it \in ToSet(q) \/ it.send \in lost'
         /\ \A it \in ToSet(q) : key[it.send] # key[s] => it \in ToSet(pending')
         /\ Matched(q, key[s]) => \A it \in ToSet(pending') : key[it.send] # key[s]
         /\ \A x, y \in ToSet(pending') :
              x.kind = "upload" /\ y.kind = "project_file" => key[x.send] # key[y.send]
<1> DEFINE h == Half(s, kind)
           k == key[s]
<1>1. h \in Items /\ h.send = s /\ h.kind = kind /\ pending \in Seq(Items)
  BY HalfProperties DEF CaptureTypes
<1>2. q \in Seq(Items) /\ Shrinks(q, Append(pending, h)) /\ ToSet(q) \subseteq Items
  BY DEF Recorded, ToSet
<1> HIDE DEF h
<1>3. /\ pending' = q \/ pending' = Without(q, k)
      /\ Without(q, k) \in Seq(Items) /\ Shrinks(Without(q, k), q)
      /\ ToSet(Without(q, k)) = {it \in ToSet(q) : key[it.send] # k}
      /\ Matched(q, k) => pending' = Without(q, k)
      /\ ~Matched(q, k) => pending' = q
  BY <1>2, WithoutProperties DEF Recorded
<1>4. ToSet(q) \subseteq ToSet(pending) \cup {h}
  BY <1>1, <1>2, ShrinksMembers, AppendSet
<1>5. Shrinks(pending', q)
  BY <1>3, ShrinksReflexive
<1>6. ASSUME NEW y, Once(pending, y), y = h => h \notin ToSet(pending)
      PROVE  Once(q, y) /\ Once(pending', y)
  <2>1. Once(Append(pending, h), y)
    BY <1>1, <1>6, AppendOnce
  <2>2. Once(q, y)
    BY <1>2, <2>1, ShrinksMembers
  <2>3. QED
    BY <1>5, <2>2, ShrinksMembers
<1>7. \A it \in ToSet(pending) : it \in ToSet(q) \/ it.send \in lost'
  BY <1>1, DroppedSends DEF Recorded
<1>8. ASSUME NEW x \in ToSet(pending'), NEW y \in ToSet(pending'), x.kind = "upload", y.kind = "project_file"
      PROVE  key[x.send] # key[y.send]
  <2>1. CASE Matched(q, k)
    <3>1. x \in ToSet(q) /\ y \in ToSet(q) /\ key[x.send] # k /\ key[y.send] # k
      BY <1>3, <2>1
    <3>2. x \in ToSet(pending) /\ y \in ToSet(pending)
      BY <1>1, <1>4, <3>1
    <3>3. QED
      BY <1>8, <3>2 DEF Unmatched
  <2>2. CASE ~Matched(q, k)
    <3>1. x \in ToSet(q) /\ y \in ToSet(q)
      BY <1>3, <2>2
    <3>2. CASE x \in ToSet(pending) /\ y \in ToSet(pending)
      BY <1>8, <3>2 DEF Unmatched
    <3>3. CASE x = h \/ y = h
      <4>1. SUFFICES ASSUME key[x.send] = key[y.send] PROVE FALSE
        OBVIOUS
      <4>2. key[x.send] = k /\ key[y.send] = k
        BY <1>1, <3>3, <4>1
      <4>3. Count(q, k, "upload") > 0 /\ Count(q, k, "project_file") > 0
        BY <1>2, <1>8, <3>1, <4>2, SomeWaits DEF Kinds
      <4>4. QED
        BY <2>2, <4>3 DEF Matched
    <3>4. QED
      BY <1>4, <3>1, <3>2, <3>3
  <2>3. QED
    BY <2>1, <2>2
<1>9. ToSet(pending') \subseteq ToSet(q)
  BY <1>3
<1>10. \A it \in ToSet(q) : key[it.send] # k => it \in ToSet(pending')
  BY <1>3
<1>11. Matched(q, k) => \A it \in ToSet(pending') : key[it.send] # k
  BY <1>3
<1>12. QED
  BY <1>2, <1>4, <1>6, <1>7, <1>8, <1>9, <1>10, <1>11 DEF h

\* Halves are told apart by send and kind.
LEMMA HalvesDiffer ==
  ASSUME NEW s, NEW t, NEW kind, NEW any, Half(s, kind) = Half(t, any)
  PROVE  s = t /\ kind = any
<1>1. Half(s, kind).send = s /\ Half(s, kind).kind = kind /\ Half(t, any).send = t /\ Half(t, any).kind = any
  BY DEF Half
<1>2. QED
  BY <1>1

\* A recorded half repeats no upload and pairs the right ones.
LEMMA RecordedUploads ==
  ASSUME CaptureTypes, UploadsOnce, OneSend, Unmatched, UNCHANGED <<key, md5>>,
         NEW s \in Sends, NEW kind \in Kinds, NEW q, Recorded(q, s, kind),
         \A t \in Sends : upload'[t] = "done" <=> upload[t] = "done" \/ (kind = "upload" /\ t = s),
         kind = "upload" => upload[s] # "done"
  PROVE  UploadsOnce' /\ OneSend'
<1> DEFINE h == Half(s, kind)
<1>1. ToSet(q) \subseteq ToSet(pending) \cup {h} /\ ToSet(pending') \subseteq ToSet(q)
  BY RecordedMembers
<1>2. \A t \in Sends : Half(t, "upload") = h => t = s /\ kind = "upload"
  BY HalvesDiffer
<1>3. \A t \in Sends : Half(t, "upload") \in ToSet(q) =>
        Half(t, "upload") \in ToSet(pending) \/ (t = s /\ kind = "upload")
  BY <1>1, <1>2
<1>4. ASSUME NEW t \in Sends PROVE Once(pending', Half(t, "upload"))
  <2>1. Once(pending, Half(t, "upload"))
    BY DEF UploadsOnce
  <2>2. Half(t, "upload") = h => h \notin ToSet(pending)
    BY <1>2 DEF UploadsOnce
  <2>3. QED
    BY <2>1, <2>2, RecordedMembers
<1>5. \A t \in Sends : Half(t, "upload") \in ToSet(q) => upload'[t] = "done"
  BY <1>3 DEF UploadsOnce
<1>6. ASSUME NEW x \in captured
      PROVE  /\ x[1] \in Sends /\ x[2] \in Sends
             /\ upload'[x[1]] = "done" /\ Half(x[1], "upload") \notin ToSet(q)
  <2>1. x[1] \in Sends /\ x[2] \in Sends /\ upload[x[1]] = "done" /\ Half(x[1], "upload") \notin ToSet(pending)
    BY DEF CaptureTypes, UploadsOnce
  <2>2. QED
    BY <1>3, <2>1
<1>7. CASE captured' = captured
  <2>1. UploadsOnce'
    BY <1>1, <1>4, <1>5, <1>6, <1>7 DEF UploadsOnce
  <2>2. OneSend'
    BY <1>7 DEF OneSend
  <2>3. QED
    BY <2>1, <2>2
<1>8. ASSUME Matched(q, key[s]), NEW u \in Sends, NEW p \in Sends, Captures(q, key[s], u, p),
             captured' = captured \cup {<<u, p>>}
      PROVE  UploadsOnce' /\ OneSend'
  <2>1. Half(u, "upload") \in ToSet(q) /\ key[u] = key[s] /\ key[p] = key[s] /\ Assembled(u, p)
    BY <1>8 DEF Captures
  <2>2. Half(u, "upload") \notin ToSet(pending')
    <3>1. Half(u, "upload").send = u
      BY DEF Half
    <3>2. QED
      BY <1>8, <2>1, <3>1, RecordedMembers
  <2>3. upload'[u] = "done"
    BY <1>5, <2>1
  <2>4. ASSUME NEW x \in captured' PROVE upload'[x[1]] = "done" /\ Half(x[1], "upload") \notin ToSet(pending')
    <3>1. CASE x \in captured
      BY <1>1, <1>6, <3>1
    <3>2. CASE x = <<u, p>>
      BY <2>2, <2>3, <3>2
    <3>3. QED
      BY <1>8, <3>1, <3>2
  <2>5. UploadsOnce'
    BY <1>1, <1>4, <1>5, <2>4 DEF UploadsOnce
  <2>6. \A x \in captured : x[1] # u
    BY <1>6, <2>1
  <2>7. OneSend'
    <3>1. ASSUME NEW x \in captured'
          PROVE  /\ key[x[1]] = key[x[2]] /\ (x[2] \in md5 => x[1] = x[2])
                 /\ \A y \in captured' : y[1] = x[1] => y = x
      <4>1. CASE x \in captured
        BY <1>8, <2>6, <4>1 DEF OneSend
      <4>2. CASE x = <<u, p>>
        BY <1>8, <2>1, <2>6, <4>2 DEF Assembled
      <4>3. QED
        BY <1>8, <4>1, <4>2
    <3>2. QED
      BY <3>1 DEF OneSend
  <2>8. QED
    BY <2>5, <2>7
<1>9. QED
  BY <1>7, <1>8 DEF Recorded

\* An upload is recorded: the commands stay as they were.
LEMMA RecordedUploadCommands ==
  ASSUME CaptureTypes, Commands, Unmatched, UNCHANGED <<key, pub, publishes>>,
         NEW s \in Sends, NEW q, Recorded(q, s, "upload")
  PROVE  Commands'
<1>1. "upload" \in Kinds /\ "project_file" # "upload"
  BY DEF Kinds
<1>2. commanded' = commanded
  BY <1>1 DEF Recorded
<1>3. \A t \in Sends : Half(t, "project_file") # Half(s, "upload")
  BY <1>1, HalvesDiffer
<1>4. \A t \in Sends : Half(t, "project_file") \in ToSet(pending') => t \in commanded
  BY <1>1, <1>3, RecordedMembers DEF Commands
<1>5. \A t \in Sends : publishes[t] <= 1 => Once(pending', Half(t, "project_file"))
  BY <1>1, <1>3, RecordedMembers DEF Commands
<1>6. QED
  BY <1>2, <1>4, <1>5 DEF Commands, InFlight

\* A command is recorded: it is no longer under way.
LEMMA RecordedCommandCommands ==
  ASSUME CaptureTypes, Commands, Unmatched, UNCHANGED <<key, publishes>>,
         pub \in [Conns -> Sends \cup {Nil}], NEW c \in Conns, NEW s \in Sends, pub[c] = s,
         pub' = [pub EXCEPT ![c] = Nil],
         NEW q, Recorded(q, s, "project_file")
  PROVE  Commands'
<1>1. commanded' = commanded \cup {s} /\ "project_file" \in Kinds
  BY DEF Recorded, Kinds
<1>2. \A d \in Conns : pub'[d] # Nil => d # c /\ pub'[d] = pub[d]
  OBVIOUS
<1>3. InFlight(s) /\ Nil \notin Sends
  BY VpRuntimeAssumption DEF InFlight
<1>4. \A t \in Sends : InFlight(t)' => InFlight(t)
  BY <1>2, <1>3 DEF InFlight
<1>5. InFlight(s)' => publishes[s] >= 2
  BY <1>2, <1>3 DEF InFlight, Commands
<1>6. \A t \in Sends : Half(t, "project_file") = Half(s, "project_file") => t = s
  BY HalvesDiffer
<1>7. \A t \in Sends : InFlight(t)' \/ t \in commanded' => publishes[t] >= 1
  BY <1>1, <1>3, <1>4 DEF Commands
<1>8. \A t \in Sends : InFlight(t)' /\ t \in commanded' => publishes[t] >= 2
  BY <1>1, <1>4, <1>5 DEF Commands
<1>9. \A d, e \in Conns : d # e /\ pub'[d] = pub'[e] /\ pub'[d] # Nil => publishes[pub'[d]] >= 2
  BY <1>2 DEF Commands
<1>10. \A t \in Sends : Half(t, "project_file") \in ToSet(pending') => t \in commanded'
  BY <1>1, <1>6, RecordedMembers DEF Commands
<1>11. ASSUME NEW t \in Sends, publishes[t] <= 1 PROVE Once(pending', Half(t, "project_file"))
  <2>1. Once(pending, Half(t, "project_file"))
    BY <1>11 DEF Commands
  <2>2. t = s => Half(t, "project_file") \notin ToSet(pending)
    <3> SUFFICES ASSUME t = s, Half(s, "project_file") \in ToSet(pending) PROVE FALSE
      OBVIOUS
    <3>1. s \in commanded /\ publishes[s] \in Nat
      BY DEF Commands
    <3>2. publishes[s] >= 2
      BY <1>3, <3>1 DEF Commands
    <3>3. QED
      BY <1>11, <3>1, <3>2
  <2>3. QED
    BY <1>1, <1>6, <2>1, <2>2, RecordedMembers
<1>12. QED
  BY <1>7, <1>8, <1>9, <1>10, <1>11 DEF Commands, InFlight

\* The halves of a send that nothing interferes with find each other.
LEMMA RecordedHalves ==
  ASSUME CaptureTypes, UploadsOnce, Commands, Unmatched, HalvesWait, UNCHANGED <<key, publishes>>,
         NEW s \in Sends, NEW kind \in Kinds, NEW q, Recorded(q, s, kind),
         \A t \in Sends : upload'[t] = "done" <=> upload[t] = "done" \/ (kind = "upload" /\ t = s),
         kind = "upload" => upload[s] # "done",
         kind = "project_file" => InFlight(s)
  PROVE  HalvesWait'
<1>0. "upload" \in Kinds /\ "project_file" \in Kinds /\ "upload" # "project_file"
  BY DEF Kinds
<1>1. SUFFICES ASSUME NEW t \in Sends, Lone(t), t \notin lost', <<t, t>> \notin captured'
               PROVE  /\ upload'[t] = "done" => Half(t, "upload") \in ToSet(pending')
                      /\ t \in commanded' => Half(t, "project_file") \in ToSet(pending')
  BY DEF HalvesWait, Lone
<1>2. t \notin lost /\ <<t, t>> \notin captured
  BY <1>1 DEF Recorded
<1>3. ASSUME NEW any \in Kinds, Half(t, any) \in ToSet(pending) PROVE Half(t, any) \in ToSet(q)
  BY <1>1, <1>3, RecordedMembers, HalfProperties
<1>4. CASE t # s
  <2>1. key[t] # key[s]
    BY <1>1, <1>4 DEF Lone
  <2>2. \A any \in Kinds : Half(t, any) \in ToSet(q) => Half(t, any) \in ToSet(pending')
    BY <2>1, RecordedMembers, HalfProperties
  <2>3. upload'[t] = "done" => upload[t] = "done"
    BY <1>4
  <2>4. t \in commanded' => t \in commanded
    BY <1>4 DEF Recorded
  <2>5. QED
    BY <1>0, <1>1, <1>2, <1>3, <2>2, <2>3, <2>4 DEF HalvesWait
<1>5. CASE t = s
  <2>1. Half(s, kind) \in ToSet(q) /\ q \in Seq(Items)
    BY DEF Recorded
  <2>2. upload'[t] = "done" => Half(t, "upload") \in ToSet(q)
    BY <1>0, <1>1, <1>2, <1>3, <1>5, <2>1 DEF HalvesWait
  <2>3. t \in commanded' => Half(t, "project_file") \in ToSet(q)
    BY <1>0, <1>1, <1>2, <1>3, <1>5, <2>1 DEF HalvesWait, Recorded
  <2>4. Once(q, Half(s, "upload"))
    <3>1. Once(pending, Half(s, "upload"))
      BY DEF UploadsOnce
    <3>2. Half(s, "upload") = Half(s, kind) => Half(s, kind) \notin ToSet(pending)
      BY HalvesDiffer DEF UploadsOnce
    <3>3. QED
      BY <3>1, <3>2, RecordedMembers
  <2>5. Once(q, Half(s, "project_file"))
    <3>1. Once(pending, Half(s, "project_file")) /\ publishes[s] <= 1 /\ publishes[s] \in Nat
      BY <1>1, <1>5 DEF Commands, Lone
    <3>2. kind = "project_file" => s \notin commanded
      BY <3>1 DEF Commands
    <3>3. Half(s, "project_file") = Half(s, kind) => Half(s, kind) \notin ToSet(pending)
      BY <3>2, HalvesDiffer DEF Commands
    <3>4. QED
      BY <3>1, <3>3, RecordedMembers
  <2>6. ~Matched(q, key[s])
    <3>1. SUFFICES ASSUME Matched(q, key[s]) PROVE FALSE
      OBVIOUS
    <3>2. ASSUME NEW any \in Kinds, Count(q, key[s], any) > 0
          PROVE  Half(s, any) \in ToSet(q)
      <4>1. PICK r \in Sends : Half(r, any) \in ToSet(q) /\ key[r] = key[s]
        BY <2>1, <3>2, SomeWaits
      <4>2. r = s
        BY <1>1, <1>5, <4>1 DEF Lone
      <4>3. QED
        BY <4>1, <4>2
    <3>3. Half(s, "upload") \in ToSet(q) /\ Half(s, "project_file") \in ToSet(q)
      BY <1>0, <3>1, <3>2 DEF Matched
    <3>4. key \in [Sends -> Keys] /\ \A r \in Sends \ {s} : key[r] # key[s]
      BY <1>1, <1>5 DEF Lone, CaptureTypes
    <3>5. Count(q, key[s], "upload") = 1 /\ TheSend(q, key[s], "upload") = s
      BY <1>0, <2>1, <2>4, <3>3, <3>4, OneWaits
    <3>6. Count(q, key[s], "project_file") = 1 /\ TheSend(q, key[s], "project_file") = s
      BY <1>0, <2>1, <2>5, <3>3, <3>4, OneWaits
    <3>7. <<s, s>> \in captured' \/ s \in lost'
      BY <3>5, <3>6 DEF Recorded, Single
    <3>8. QED
      BY <1>1, <1>5, <3>7
  <2>7. pending' = q
    BY <2>6 DEF Recorded
  <2>8. QED
    BY <2>2, <2>3, <2>7
<1>6. QED
  BY <1>4, <1>5

\* Steps that record nothing: halves are dropped at most, and are lost then.
LEMMA ShrunkCaptures ==
  ASSUME CInv, UNCHANGED <<key, md5, captured, commanded, publishes>>,
         captured \subseteq Sends \X Sends,
         Shrinks(pending', pending), lost \subseteq lost',
         \A it \in ToSet(pending) : it \in ToSet(pending') \/ it.send \in lost',
         \A c \in Conns : pub'[c] \in {pub[c], Nil},
         \A s \in Sends : upload'[s] = "done" <=> upload[s] = "done"
  PROVE  CInv'
<1>1. ToSet(pending') \subseteq ToSet(pending) /\ \A y : Once(pending, y) => Once(pending', y)
  BY ShrinksMembers
<1>2. UploadsOnce'
  <2>1. \A x \in captured : x[1] \in Sends
    OBVIOUS
  <2>2. QED
    BY <1>1, <2>1 DEF CInv, UploadsOnce
<1>3. Commands'
  <2>1. \A s \in Sends : InFlight(s)' => InFlight(s)
    BY VpRuntimeAssumption DEF InFlight
  <2>2. \A c, d \in Conns : c # d /\ pub'[c] = pub'[d] /\ pub'[c] # Nil => publishes[pub'[c]] >= 2
    BY DEF CInv, Commands
  <2>3. QED
    BY <1>1, <2>1, <2>2 DEF CInv, Commands, InFlight
<1>4. Unmatched' /\ OneSend'
  BY <1>1 DEF CInv, Unmatched, OneSend
<1>5. HalvesWait'
  <2>1. ASSUME NEW s \in Sends, NEW kind, s \notin lost', Half(s, kind) \in ToSet(pending)
        PROVE  Half(s, kind) \in ToSet(pending')
    <3>1. Half(s, kind).send = s
      BY DEF Half
    <3>2. QED
      BY <2>1, <3>1
  <2>2. QED
    BY <2>1 DEF CInv, HalvesWait, Lone
<1>6. QED
  BY <1>2, <1>3, <1>4, <1>5 DEF CInv

\* Steps that leave the coordinator alone.
LEMMA QuietCaptures ==
  ASSUME CInv, UNCHANGED <<fixedVars, captureVars, publishes>>,
         captured \subseteq Sends \X Sends,
         \A c \in Conns : pub'[c] \in {pub[c], Nil},
         \A s \in Sends : upload'[s] = "done" <=> upload[s] = "done"
  PROVE  CInv'
<1>1. UNCHANGED <<key, md5, pending, captured, commanded, lost, publishes>>
  BY DEF fixedVars, captureVars
<1>2. Shrinks(pending', pending)
  BY <1>1, ShrinksReflexive
<1>3. QED
  BY <1>1, <1>2, ShrunkCaptures

\* Another command of s is under way.
LEMMA PublishCaptures ==
  ASSUME TypeOK, CInv, NEW c \in Conns, NEW s \in Sends, Publish(c, s)
  PROVE  CInv'
<1>1. /\ UNCHANGED <<key, md5, pending, captured, commanded, lost, upload>>
      /\ publishes' = [publishes EXCEPT ![s] = @ + 1] /\ pub' = [pub EXCEPT ![c] = s]
  BY DEF Publish, fixedVars, captureVars, ftpVars
<1>2. pub \in [Conns -> Sends \cup {Nil}] /\ publishes \in [Sends -> Nat]
  BY DEF TypeOK, CInv, Commands
<1>3. publishes' \in [Sends -> Nat] /\ \A t \in Sends : publishes'[t] >= publishes[t]
  BY <1>1, <1>2
<1>4. publishes'[s] = publishes[s] + 1 /\ publishes[s] \in Nat
  BY <1>1, <1>2
<1>5. \A t \in Sends : InFlight(t)' => InFlight(t) \/ t = s
  BY <1>1, <1>2 DEF InFlight
<1>6. InFlight(s) \/ s \in commanded => publishes'[s] >= 2
  BY <1>4 DEF CInv, Commands
<1>7. Commands'
  <2>1. \A t \in Sends : InFlight(t)' \/ t \in commanded' => publishes'[t] >= 1
    <3>1. ASSUME NEW t \in Sends, InFlight(t)' \/ t \in commanded' PROVE publishes'[t] >= 1
      <4>1. CASE t = s
        BY <1>4, <4>1
      <4>2. CASE t # s
        <5>1. publishes[t] >= 1
          BY <1>1, <1>5, <3>1, <4>2 DEF CInv, Commands
        <5>2. publishes[t] \in Nat /\ publishes'[t] = publishes[t]
          BY <1>1, <1>2, <4>2
        <5>3. QED
          BY <5>1, <5>2
      <4>3. QED
        BY <4>1, <4>2
    <3>2. QED
      BY <3>1
  <2>2. \A t \in Sends : InFlight(t)' /\ t \in commanded' => publishes'[t] >= 2
    <3>1. ASSUME NEW t \in Sends, InFlight(t)', t \in commanded' PROVE publishes'[t] >= 2
      <4>1. CASE t = s
        BY <1>1, <1>6, <3>1, <4>1
      <4>2. CASE t # s
        <5>1. publishes[t] >= 2
          BY <1>1, <1>5, <3>1, <4>2 DEF CInv, Commands
        <5>2. publishes[t] \in Nat /\ publishes'[t] = publishes[t]
          BY <1>1, <1>2, <4>2
        <5>3. QED
          BY <5>1, <5>2
      <4>3. QED
        BY <4>1, <4>2
    <3>2. QED
      BY <3>1
  <2>3. ASSUME NEW d \in Conns, NEW e \in Conns, d # e, pub'[d] = pub'[e], pub'[d] # Nil
        PROVE  publishes'[pub'[d]] >= 2
    <3>1. CASE d # c /\ e # c
      <4>1. pub'[d] = pub[d] /\ pub'[e] = pub[e] /\ pub[d] \in Sends
        BY <1>1, <1>2, <2>3, <3>1
      <4>2. publishes[pub[d]] >= 2 /\ publishes[pub[d]] \in Nat
        BY <1>2, <2>3, <4>1 DEF CInv, Commands
      <4>3. publishes'[pub[d]] >= publishes[pub[d]] /\ publishes'[pub[d]] \in Nat
        BY <1>3, <4>1
      <4>4. QED
        BY <4>1, <4>2, <4>3
    <3>2. CASE d = c \/ e = c
      <4>1. InFlight(s) /\ pub'[d] = s
        BY <1>1, <1>2, <2>3, <3>2 DEF InFlight
      <4>2. QED
        BY <1>6, <4>1
    <3>3. QED
      BY <3>1, <3>2
  <2>4. ASSUME NEW t \in Sends, publishes'[t] <= 1 PROVE Once(pending, Half(t, "project_file"))
    <3>1. publishes[t] \in Nat /\ publishes'[t] \in Nat /\ publishes'[t] >= publishes[t]
      BY <1>2, <1>3
    <3>2. publishes[t] <= 1
      BY <2>4, <3>1
    <3>3. QED
      BY <3>2 DEF CInv, Commands
  <2>5. \A t \in Sends : Half(t, "project_file") \in ToSet(pending) => t \in commanded
    BY DEF CInv, Commands
  <2>6. QED
    BY <1>1, <1>3, <2>1, <2>2, <2>3, <2>4, <2>5 DEF Commands, InFlight
<1>8. UploadsOnce' /\ Unmatched' /\ OneSend'
  BY <1>1 DEF CInv, UploadsOnce, Unmatched, OneSend
<1>9. HalvesWait'
  <2>1. ASSUME NEW t \in Sends, Lone(t)' PROVE Lone(t)
    <3>1. publishes[t] \in Nat /\ publishes'[t] \in Nat /\ publishes'[t] >= publishes[t]
      BY <1>2, <1>3
    <3>2. QED
      BY <1>1, <2>1, <3>1 DEF Lone
  <2>2. QED
    BY <1>1, <2>1 DEF CInv, HalvesWait
<1>10. QED
  BY <1>7, <1>8, <1>9 DEF CInv

\* A handled project_file keeps CInv.
LEMMA ProjectFileCaptures ==
  ASSUME TypeOK, CInv, NEW c \in Conns, ProjectFile(c)
  PROVE  CInv'
<1>1. CaptureTypes /\ ServerTypes
  BY TypeParts
<1>2. UNCHANGED <<key, md5, upload, publishes>> /\ pub' = [pub EXCEPT ![c] = Nil]
  BY DEF ProjectFile, fixedVars, ftpVars
<1>3. PICK s \in Sends : pub[c] = s
  BY <1>1 DEF ProjectFile, ServerTypes
<1>4. CASE Record(pub[c], "project_file")
  <2>1. Record(s, "project_file")
    BY <1>3, <1>4
  <2>2. PICK q : Recorded(q, s, "project_file")
    BY <1>1, <2>1, RecordIs DEF CaptureTypes, Kinds
  <2>3. InFlight(s) /\ "project_file" \in Kinds /\ "project_file" # "upload"
    BY <1>3 DEF InFlight, Kinds
  <2>4. pub \in [Conns -> Sends \cup {Nil}]
    BY <1>1 DEF ServerTypes
  <2>5. UploadsOnce' /\ OneSend'
    BY <1>1, <1>2, <2>2, <2>3, RecordedUploads DEF CInv
  <2>6. Commands'
    BY <1>1, <1>2, <1>3, <2>2, <2>4, RecordedCommandCommands DEF CInv
  <2>7. HalvesWait'
    BY <1>1, <1>2, <2>2, <2>3, RecordedHalves DEF CInv
  <2>8. Unmatched'
    BY <1>1, <1>2, <2>2, <2>3, RecordedMembers DEF CInv, Unmatched
  <2>9. QED
    BY <2>5, <2>6, <2>7, <2>8 DEF CInv
<1>5. CASE UNCHANGED captureVars
  <2>1. \A d \in Conns : pub'[d] \in {pub[d], Nil}
    BY <1>1, <1>2 DEF ServerTypes
  <2>2. QED
    BY <1>1, <1>2, <1>5, <2>1, QuietCaptures DEF CaptureTypes, fixedVars
<1>6. QED
  BY <1>4, <1>5 DEF ProjectFile

\* A stored upload keeps CInv.
LEMMA StoredCaptures ==
  ASSUME TypeOK, CInv, NEW s \in Sends, Stored(s)
  PROVE  CInv'
<1>1. CaptureTypes /\ ServerTypes
  BY TypeParts
<1>2. UNCHANGED <<key, md5, pub, publishes>> /\ upload[s] = "receiving" /\ upload' = [upload EXCEPT ![s] = "done"]
  BY DEF Stored, fixedVars
<1>3. PICK q : Recorded(q, s, "upload")
  BY <1>1, RecordIs DEF Stored, CaptureTypes, Kinds
<1>4. \A t \in Sends : upload'[t] = "done" <=> upload[t] = "done" \/ t = s
  BY <1>1, <1>2 DEF ServerTypes
<1>5. "upload" \in Kinds /\ "project_file" # "upload" /\ upload[s] # "done"
  BY <1>2 DEF Kinds
<1>6. UploadsOnce' /\ OneSend'
  BY <1>1, <1>2, <1>3, <1>4, <1>5, RecordedUploads DEF CInv
<1>7. Commands'
  BY <1>1, <1>2, <1>3, RecordedUploadCommands DEF CInv
<1>8. HalvesWait'
  BY <1>1, <1>2, <1>3, <1>4, <1>5, RecordedHalves DEF CInv
<1>9. Unmatched'
  BY <1>1, <1>2, <1>3, <1>5, RecordedMembers DEF CInv, Unmatched
<1>10. QED
  BY <1>6, <1>7, <1>8, <1>9 DEF CInv

\* Expiry keeps CInv.
LEMMA ExpireCaptures ==
  ASSUME TypeOK, CInv, ExpirePending
  PROVE  CInv'
<1>1. CaptureTypes
  BY TypeParts
<1>2. PICK n \in 1 .. Len(pending) : pending' = Prune(pending, n)
  BY DEF ExpirePending
<1>3. Shrinks(pending', pending)
  BY <1>1, <1>2, SuffixShrinks DEF CaptureTypes, Prune
<1>4. /\ UNCHANGED <<key, md5, captured, commanded, publishes, pub, upload>>
      /\ lost' = lost \cup Dropped(pending, pending')
  BY DEF ExpirePending, fixedVars, brokerVars, ftpVars
<1>5. \A it \in ToSet(pending) : it \in ToSet(pending') \/ it.send \in Dropped(pending, pending')
  BY <1>1, DroppedSends DEF CaptureTypes
<1>6. QED
  BY <1>1, <1>3, <1>4, <1>5, ShrunkCaptures DEF CaptureTypes

\* stop() keeps CInv.
LEMMA StopCaptures ==
  ASSUME TypeOK, CInv, Stop
  PROVE  CInv'
<1>1. CaptureTypes /\ ServerTypes
  BY TypeParts
<1>2. /\ UNCHANGED <<key, md5, captured, commanded, publishes, pub>>
      /\ pending' = <<>> /\ lost' = lost \cup SendsIn(ToSet(pending))
      /\ upload' = [s \in Sends |-> IF upload[s] \in {"none", "done"} THEN upload[s] ELSE "failed"]
  BY DEF Stop, fixedVars, brokerVars
<1>3. Shrinks(<<>>, pending)
  <2>1. Embeds(<<>>, <<>>, pending)
    BY DEF Embeds
  <2>2. QED
    BY <2>1 DEF Shrinks
<1>4. \A it \in ToSet(pending) : it.send \in lost'
  BY <1>2 DEF SendsIn
<1>5. \A s \in Sends : upload'[s] = "done" <=> upload[s] = "done"
  BY <1>2
<1>6. QED
  BY <1>1, <1>2, <1>3, <1>4, <1>5, ShrunkCaptures DEF CaptureTypes

\* CInv is inductive, given the types.
LEMMA NextCaptures ==
  ASSUME TypeOK, CInv, [Next]_vars
  PROVE  CInv'
<1>1. CaptureTypes /\ ServerTypes
  BY TypeParts
<1>2. captured \subseteq Sends \X Sends /\ pub \in [Conns -> Sends \cup {Nil}]
      /\ upload \in [Sends -> {"none", "waiting", "receiving", "done", "failed"}]
  BY <1>1 DEF CaptureTypes, ServerTypes
<1>3. CASE /\ UNCHANGED <<fixedVars, captureVars, publishes>>
           /\ \A c \in Conns : pub'[c] \in {pub[c], Nil}
           /\ \A s \in Sends : upload'[s] = "done" <=> upload[s] = "done"
  BY <1>2, <1>3, QuietCaptures
<1>4. CASE UNCHANGED vars
  BY <1>3, <1>4 DEF vars, brokerVars, ftpVars
<1>5. ASSUME NEW c \in Conns, HandleClient(c) \/ Connack(c) \/ SendPrintAck(c) \/ HandlerEnds(c) PROVE CInv'
  BY <1>2, <1>3, <1>5 DEF HandleClient, Connack, SendPrintAck, HandlerEnds, ftpVars
<1>6. ASSUME NEW s \in Sends, Stor(s) \/ Acquire(s) \/ StorFails(s) PROVE CInv'
  BY <1>2, <1>3, <1>6 DEF Stor, Acquire, StorFails, brokerVars
<1>7. CASE Finish \/ CancelFinish \/ CloseBroker \/ AbortFtp
  BY <1>2, <1>3, <1>7 DEF Finish, CancelFinish, CloseBroker, AbortFtp, brokerVars, ftpVars
<1>8. QED
  BY <1>4, <1>5, <1>6, <1>7, PublishCaptures, ProjectFileCaptures, StoredCaptures, ExpireCaptures, StopCaptures DEF Next, Broker, Ftp

\* CInv holds when a runtime starts.
LEMMA InitCaptures == Init => CInv
<1> SUFFICES ASSUME Init PROVE CInv
  OBVIOUS
<1>1. ToSet(pending) = {} /\ DOMAIN pending = {}
  BY DEF Init, ToSet
<1>2. UploadsOnce /\ Unmatched /\ OneSend
  BY <1>1 DEF Init, UploadsOnce, Once, Unmatched, OneSend
<1>3. Commands
  BY <1>1, VpRuntimeAssumption DEF Init, Commands, InFlight, Once
<1>4. HalvesWait
  BY DEF Init, HalvesWait
<1>5. QED
  BY <1>2, <1>3, <1>4 DEF CInv

\* CInv is an invariant.
LEMMA CapturesAlways == Spec => []CInv
<1>1. TypeOK /\ CInv /\ [Next]_vars => CInv'
  BY NextCaptures
<1>2. QED
  BY InitCaptures, <1>1, TypesAndLimits, PTL DEF Spec

\* A pair that on_capture is given is of one member and file name, and of one
\* send when the command names the file's md5; and no upload is printed twice,
\* however often its command is repeated (_try_capture, assemble_captured_job).
THEOREM CapturesPair == Spec => []OneSend
<1>1. CInv => OneSend
  BY DEF CInv
<1>2. QED
  BY <1>1, CapturesAlways, PTL

\* No send is forgotten: in whatever order its halves come and whatever other
\* sends and connections do, it is captured once both are there, or a half was
\* dropped by a limit, by the wait or by stop(), or the file cannot be read
\* (record_upload, record_project_file, _try_capture).
THEOREM NoSendForgotten == Spec => []SendCaptured
<1>1. TypeOK /\ CInv => SendCaptured
  <2>1. SUFFICES ASSUME TypeOK, CInv, NEW s \in Sends, upload[s] = "done", s \in commanded,
                        publishes[s] = 1, \A t \in Sends \ {s} : key[t] # key[s], s \notin lost,
                        <<s, s>> \notin captured
                 PROVE  FALSE
    BY DEF SendCaptured
  <2>2. Half(s, "upload") \in ToSet(pending) /\ Half(s, "project_file") \in ToSet(pending)
    BY <2>1 DEF CInv, HalvesWait, Lone
  <2>3. /\ Half(s, "upload").kind = "upload" /\ Half(s, "project_file").kind = "project_file"
        /\ Half(s, "upload").send = s /\ Half(s, "project_file").send = s
    BY DEF Half
  <2>4. QED
    BY <2>1, <2>2, <2>3 DEF CInv, Unmatched
<1>2. QED
  BY <1>1, TypesAndLimits, CapturesAlways, PTL
===============================================================================
