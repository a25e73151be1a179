----------------------------- MODULE CamerasProofs -----------------------------
(***************************************************************************)
(* Proofs about Cameras: hanging cameras starve nobody, no printer goes    *)
(* dark, a printer switched on again is due at once, scores are not        *)
(* smoothed across a break, and only a verified model is loaded, for any   *)
(* printers, workers, cadences and number of changes.                      *)
(***************************************************************************)
EXTENDS Cameras, ListsProofs

Typed ==
  /\ lastState \in [Printers -> {Unseen, "idle", "printing"}]
  /\ age \in [Printers -> Int] /\ shipped \in [Printers -> Int] /\ prev \in [Printers -> Int]
  /\ act \in [Printers -> {"idle", "edge", "mid"}]
  /\ due \subseteq Printers /\ eligible \subseteq Printers
  /\ pc \in {"idle", "capture", "watch"}

\* A stamp is that of a collected frame, and only printers in view have one.
Stamps ==
  /\ due \subseteq eligible /\ frames \subseteq due
  /\ \A p \in Printers : age[p] # Never => p \in eligible /\ shipped[p] = age[p]
  /\ pc # "idle" => \A p \in eligible \ due : age[p] # Never /\ age[p] < Interval(p)

\* While captures run, every due printer is in exactly one place, and nobody waits while
\* a worker is free.
Pool ==
  pc = "capture" =>
    /\ queue \in Seq(Printers) /\ IsInjective(queue)
    /\ running \subseteq Printers /\ ToSet(queue) \cap running = {}
    /\ due = frames \cup failed \cup running \cup ToSet(queue)
    /\ queue # <<>> => Cardinality(running) >= Workers
    /\ \A p \in failed : "reason" \in Results(p)

\* The smoother has no memory of a printer the watch has passed over.
Broken == \A p \in passed \cap Printers : prev[p] = Never

IInv ==
  /\ Typed /\ Stamps /\ Pool /\ Broken
  /\ HangingDoNotStarve /\ NoBlackout /\ ColdAfterBreak /\ ModelVerified

-------------------------------------------------------------------------------
(* The pool. *)

\* The printers are finitely many.
LEMMA PrintersFinite == IsFiniteSet(Printers)
BY CamerasAssumption, InjectiveCount DEF Printers

\* The workers take as many captures as there are free workers or waiting captures.
LEMMA StartedBound ==
  ASSUME NEW w \in Seq(Printers), NEW b \in SUBSET Printers
  PROVE  /\ Started(w, b) \in 0 .. Len(w)
         /\ Started(w, b) < Len(w) => Cardinality(b) + Started(w, b) >= Workers
<1>1. Cardinality(b) \in Nat /\ Workers \in Nat /\ Len(w) \in Nat
  BY PrintersFinite, FS_Subset, FS_CardinalityType, CamerasAssumption
<1>2. QED
  BY <1>1 DEF Started

\* What Fill does with the waiting captures: nothing is lost or doubled, and if any still
\* waits then all workers are busy.
LEMMA FillFacts ==
  ASSUME NEW w \in Seq(Printers), IsInjective(w), NEW b \in SUBSET Printers,
         b \cap ToSet(w) = {}, Fill(w, b)
  PROVE  /\ queue' \in Seq(Printers) /\ IsInjective(queue') /\ running' \subseteq Printers
         /\ ToSet(queue') \cap running' = {}
         /\ running' \cup ToSet(queue') = b \cup ToSet(w)
         /\ queue' # <<>> => Cardinality(running') >= Workers
<1> DEFINE n == Started(w, b)
           taken == {w[i] : i \in 1 .. n}
<1>1. running' = b \cup taken /\ queue' = SubSeq(w, n + 1, Len(w))
  BY DEF Fill
<1>2. n \in 0 .. Len(w) /\ (n < Len(w) => Cardinality(b) + n >= Workers)
  BY StartedBound
<1>3. /\ taken \subseteq Printers /\ IsFiniteSet(taken) /\ Cardinality(taken) = n
      /\ queue' \in Seq(Printers) /\ IsInjective(queue') /\ (queue' # <<>> => n < Len(w))
      /\ taken \cup ToSet(queue') = ToSet(w) /\ taken \cap ToSet(queue') = {}
  <2> HIDE DEF n
  <2>1. QED
    BY <1>1, <1>2, CutInTwo
<1> HIDE DEF n, taken
<1>4. IsFiniteSet(b) /\ Cardinality(b) \in Nat
  BY PrintersFinite, FS_Subset, FS_CardinalityType
<1>5. b \cap taken = {}
  BY <1>3
<1>6. Cardinality(b \cup taken) = Cardinality(b) + n
  <2>1. Cardinality(b \cup taken) = Cardinality(b) + Cardinality(taken) - Cardinality(b \cap taken)
    BY <1>3, <1>4, FS_Union
  <2>2. Cardinality(b \cap taken) = 0
    BY <1>5, FS_EmptySet
  <2>3. QED
    BY <1>2, <1>3, <1>4, <2>1, <2>2
<1>7. queue' # <<>> => Cardinality(running') >= Workers
  BY <1>1, <1>2, <1>3, <1>6
<1>8. QED
  BY <1>1, <1>3, <1>7

-------------------------------------------------------------------------------
(* The steps. *)

\* The initial states satisfy the invariant.
LEMMA InitHolds == Init => IInv
<1> SUFFICES ASSUME Init PROVE IInv
  OBVIOUS
<1>1. act \in [Printers -> {"idle", "edge", "mid"}]
  BY DEF Init
<1>2. Typed
  BY <1>1 DEF Init, Typed, None, Never
<1>3. Stamps /\ Pool /\ Broken
  BY DEF Init, Stamps, Pool, Broken, None
<1>4. QED
  BY <1>2, <1>3
     DEF Init, IInv, HangingDoNotStarve, NoBlackout, ColdAfterBreak, ModelVerified

\* An interval is a number of beats.
LEMMA IntervalNat == ASSUME Typed, NEW p \in Printers PROVE Interval(p) \in Nat
BY CamerasAssumption DEF Typed, Interval

\* The beat reaches the cameras: the printers not due have a recent stamp.
LEMMA CollectFramesKeeps == IInv /\ CollectFrames => IInv'
<1> SUFFICES ASSUME IInv, CollectFrames PROVE IInv'
  OBVIOUS
<1> DEFINE on == {p \in Printers : config[p] # "off"}
           states == Forget(lastState, Eligible, Unseen)
           ages == Forget(age, Eligible, Never)
           now == {p \in on : ShouldCapture(p, states, ages)}
<1>1. /\ due' = now /\ lastState' = [p \in Printers |-> IF p \in on THEN State(p) ELSE states[p]]
      /\ age' = ages /\ eligible' = on /\ frames' = {} /\ failed' = {} /\ pc' = "capture"
      /\ Fill(Keep(Targets, now), {})
      /\ UNCHANGED <<act, shipped, prev, passed, mixed, model, boot>>
  BY DEF CollectFrames, configVars, watchVars, bootVars
<1>2. Typed /\ Stamps /\ Broken /\ ColdAfterBreak /\ ModelVerified
  BY DEF IInv
<1>3. states \in [Printers -> {Unseen, "idle", "printing"}]
  BY <1>2 DEF Typed, Forget
<1>4. ages \in [Printers -> Int] /\ \A p \in Printers : ages[p] # Never => p \in on /\ ages[p] = age[p]
  BY <1>2 DEF Typed, Forget, Eligible, Never
<1>5. \A p \in on \ now : ages[p] # Never /\ ages[p] < Interval(p)
  BY <1>2, <1>4, IntervalNat DEF ShouldCapture
<1> HIDE DEF states, ages
<1>6. Typed'
  <2>1. \A p \in Printers : State(p) \in {"idle", "printing"}
    BY DEF State
  <2>2. lastState' \in [Printers -> {Unseen, "idle", "printing"}]
    BY <1>1, <1>3, <2>1
  <2>3. QED
    BY <1>1, <1>2, <1>4, <2>2 DEF Typed
<1>7. Stamps'
  BY <1>1, <1>2, <1>4, <1>5 DEF Stamps, Interval
<1>8. Pool'
  <2>1. /\ Keep(Targets, now) \in Seq(Printers) /\ IsInjective(Keep(Targets, now))
        /\ ToSet(Keep(Targets, now)) = Printers \cap now
    BY CamerasAssumption, KeepProperties DEF Printers
  <2>2. Printers \cap now = now
    OBVIOUS
  <2> HIDE DEF now
  <2>3. /\ queue' \in Seq(Printers) /\ IsInjective(queue') /\ running' \subseteq Printers
        /\ ToSet(queue') \cap running' = {}
        /\ running' \cup ToSet(queue') = now
        /\ queue' # <<>> => Cardinality(running') >= Workers
    BY <1>1, <2>1, <2>2, FillFacts
  <2>4. QED
    BY <1>1, <2>3 DEF Pool
<1>9. Broken' /\ ColdAfterBreak' /\ ModelVerified'
  BY <1>1, <1>2 DEF Broken, ColdAfterBreak, ModelVerified
<1>10. QED
  BY <1>1, <1>6, <1>7, <1>8, <1>9 DEF IInv, HangingDoNotStarve, NoBlackout

\* A capture returns: its printer moves to the frames or to the failures.
LEMMA CapturedKeeps == ASSUME IInv, NEW p \in Printers, Captured(p) PROVE IInv'
<1>1. /\ pc = "capture" /\ p \in running /\ Fill(queue, running \ {p})
      /\ \/ frames' = frames \cup {p} /\ failed' = failed
         \/ "reason" \in Results(p) /\ failed' = failed \cup {p} /\ frames' = frames
      /\ UNCHANGED <<act, camera, lastState, age, shipped, eligible, due, prev, passed, mixed, model, boot, pc>>
  BY DEF Captured, configVars, schedVars, watchVars, bootVars
<1>2. Typed /\ Stamps /\ Broken /\ ColdAfterBreak /\ ModelVerified
  BY DEF IInv
<1>3. /\ queue \in Seq(Printers) /\ IsInjective(queue)
      /\ running \subseteq Printers /\ ToSet(queue) \cap running = {}
      /\ due = frames \cup failed \cup running \cup ToSet(queue)
      /\ \A q \in failed : "reason" \in Results(q)
  BY <1>1 DEF IInv, Pool
<1>4. Typed'
  BY <1>1, <1>2 DEF Typed
<1>5. Stamps'
  BY <1>1, <1>2, <1>3 DEF Stamps, Interval
<1>6. Pool'
  <2>1. /\ queue' \in Seq(Printers) /\ IsInjective(queue') /\ running' \subseteq Printers
        /\ ToSet(queue') \cap running' = {}
        /\ running' \cup ToSet(queue') = (running \ {p}) \cup ToSet(queue)
        /\ queue' # <<>> => Cardinality(running') >= Workers
    <3>1. (running \ {p}) \cap ToSet(queue) = {} /\ running \ {p} \in SUBSET Printers
      BY <1>3
    <3>2. QED
      BY <1>1, <1>3, <3>1, FillFacts
  <2>2. due' = frames' \cup failed' \cup running' \cup ToSet(queue')
    BY <1>1, <1>3, <2>1
  <2>3. \A q : Results(q)' = Results(q)
    BY <1>1 DEF Results
  <2>4. \A q \in failed' : "reason" \in Results(q)'
    BY <1>1, <1>3, <2>3
  <2>5. QED
    BY <2>1, <2>2, <2>4 DEF Pool
<1>7. Broken' /\ ColdAfterBreak' /\ ModelVerified'
  BY <1>1, <1>2 DEF Broken, ColdAfterBreak, ModelVerified
<1>8. QED
  BY <1>1, <1>4, <1>5, <1>6, <1>7 DEF IInv, HangingDoNotStarve, NoBlackout

\* A camera that answers does not fail.
LEMMA AnswersWithFrame ==
  ASSUME NEW p \in Printers, camera[p] = "ok", Source[p] # "none"
  PROVE  "reason" \notin Results(p)
BY CamerasAssumption DEF Results, RtspResults, LanResults, HttpResults

\* The pool is done: what it could not finish is hanging, so if fewer hang than there are
\* workers then nobody was left waiting.
LEMMA CollectDoneKeeps == IInv /\ CollectDone => IInv'
<1> SUFFICES ASSUME IInv, CollectDone PROVE IInv'
  OBVIOUS
<1>1. /\ pc = "capture" /\ pc' = "watch" /\ \A p \in running : Outlasts(p)
      /\ age' = [p \in Printers |-> IF p \in frames THEN 0 ELSE age[p]]
      /\ shipped' = [p \in Printers |-> IF p \in frames THEN 0 ELSE shipped[p]]
      /\ UNCHANGED <<act, camera, lastState, eligible, due, frames, prev, passed, mixed, model, boot>>
  BY DEF CollectDone, configVars, watchVars, bootVars, Stamped
<1>2. Typed /\ Stamps /\ Broken /\ ColdAfterBreak /\ ModelVerified
  BY DEF IInv
<1>3. /\ running \subseteq Printers /\ due = frames \cup failed \cup running \cup ToSet(queue)
      /\ queue # <<>> => Cardinality(running) >= Workers
      /\ \A q \in failed : "reason" \in Results(q)
  BY <1>1 DEF IInv, Pool
<1>4. Typed'
  BY <1>1, <1>2 DEF Typed
<1>5. \A p \in Printers : Interval(p)' = Interval(p)
  BY <1>1 DEF Interval
<1>6. Stamps'
  <2>1. \A p \in Printers : age'[p] # Never => p \in eligible /\ shipped'[p] = age'[p]
    BY <1>1, <1>2 DEF Stamps
  <2>2. \A p \in eligible \ due : age'[p] # Never /\ age'[p] < Interval(p)
    BY <1>1, <1>2 DEF Stamps, Typed
  <2>3. QED
    BY <1>1, <1>2, <1>5, <2>1, <2>2 DEF Stamps, Typed
<1>7. Pool' /\ Broken' /\ ColdAfterBreak' /\ ModelVerified'
  BY <1>1, <1>2 DEF Pool, Broken, ColdAfterBreak, ModelVerified
<1>8. NoBlackout'
  BY <1>1, <1>4, <1>6 DEF NoBlackout, Stamps, Typed
<1>9. HangingDoNotStarve'
  <2> DEFINE hanging == {p \in due : Outlasts(p)}
  <2>1. \A p : Outlasts(p)' = Outlasts(p)
    BY <1>1 DEF Outlasts, FirstWave
  <2>2. {p \in due : Outlasts(p)}' = hanging
    BY <1>1, <2>1
  <2>3. SUFFICES ASSUME Cardinality(hanging) < Workers, NEW p \in due, camera[p] = "ok", Source[p] # "none"
                 PROVE  p \in frames
    BY <1>1, <2>2 DEF HangingDoNotStarve
  <2>4. running \subseteq hanging
    BY <1>1, <1>3
  <2>5. IsFiniteSet(hanging)
    BY <1>2, PrintersFinite, FS_Subset DEF Typed
  <2>6. Cardinality(running) <= Cardinality(hanging) /\ Cardinality(running) \in Nat /\ Cardinality(hanging) \in Nat
    BY <2>4, <2>5, FS_Subset, FS_CardinalityType
  <2> HIDE DEF hanging
  <2>7. queue = <<>>
    BY <1>3, <2>3, <2>6, CamerasAssumption
  <2>8. ToSet(queue) = {}
    BY <2>7 DEF ToSet
  <2>9. p \notin failed
    BY <1>2, <1>3, <2>3, AnswersWithFrame DEF Typed
  <2>10. p \notin running
    BY <1>1, <2>3 DEF Outlasts
  <2>11. QED
    BY <1>3, <2>3, <2>8, <2>9, <2>10
<1>10. QED
  BY <1>4, <1>6, <1>7, <1>8, <1>9 DEF IInv

\* Growing older by a beat: the printers without a stamp stay without one.
LEMMA OlderFacts ==
  ASSUME NEW f \in [Printers -> Int], NEW cap \in Int
  PROVE  /\ Older(f, cap) \in [Printers -> Int]
         /\ \A p \in Printers : f[p] = Never => Older(f, cap)[p] = Never
BY DEF Older, Never

\* The failure watch: a printer it passes over is forgotten, so no later score meets an
\* earlier one.
LEMMA WatchKeeps == IInv /\ Watch => IInv'
<1> SUFFICES ASSUME IInv, Watch PROVE IInv'
  OBVIOUS
<1>1. /\ pc' = "idle" /\ due' = {} /\ frames' = {}
      /\ age' = Older(age, IdleBeats) /\ shipped' = Older(shipped, IdleBeats)
      /\ NoSample \/ \E raised \in SUBSET frames : Sample(raised)
      /\ UNCHANGED <<act, lastState, eligible, model, boot>>
  BY DEF Watch, configVars, bootVars
<1>2. Typed /\ Stamps /\ Broken /\ ColdAfterBreak /\ ModelVerified
  BY DEF IInv
<1>3. IdleBeats \in Int /\ Stale \in Int
  BY CamerasAssumption DEF Stale
<1>4. Stamps'
  <2>1. \A p \in Printers : age'[p] # Never => age[p] # Never
    BY <1>1, <1>2, <1>3, OlderFacts DEF Typed
  <2>2. \A p \in Printers : shipped[p] = age[p] => shipped'[p] = age'[p]
    BY <1>1, <1>2 DEF Typed, Older
  <2>3. QED
    BY <1>1, <1>2, <2>1, <2>2 DEF Stamps
<1>5. prev' \in [Printers -> Int] /\ Broken' /\ ColdAfterBreak'
  <2>1. CASE NoSample
    <3>1. prev' = Older(prev, Stale) /\ passed' = passed /\ mixed' = mixed
      BY <2>1 DEF NoSample
    <3>2. prev' \in [Printers -> Int] /\ \A p \in Printers : prev[p] = Never => prev'[p] = Never
      BY <1>2, <1>3, <3>1, OlderFacts DEF Typed
    <3>3. QED
      BY <1>2, <3>1, <3>2 DEF Broken, ColdAfterBreak
  <2>2. ASSUME NEW raised \in SUBSET frames, Sample(raised)
        PROVE  prev' \in [Printers -> Int] /\ Broken' /\ ColdAfterBreak'
    <3> DEFINE sampled == Watched \ raised
               warm == {p \in sampled : prev[p] \notin {Never, Stale}}
               fresh == [p \in Printers |-> IF p \in sampled THEN 0 ELSE prev[p]]
    <3>1. /\ prev' = Forget(Older(fresh, Stale), Watched, Never)
          /\ mixed' = mixed \cup (warm \cap passed)
          /\ passed' = (passed \cup (Printers \ Watched)) \ sampled
      BY <2>2 DEF Sample, Kept
    <3>2. fresh \in [Printers -> Int] /\ \A p \in Printers \ sampled : fresh[p] = prev[p]
      BY <1>2 DEF Typed
    <3>3. Watched \subseteq Printers
      BY <1>2 DEF Watched, Stamps, Typed
    <3> HIDE DEF fresh
    <3>4. /\ Older(fresh, Stale) \in [Printers -> Int]
          /\ \A p \in Printers : fresh[p] = Never => Older(fresh, Stale)[p] = Never
      BY <1>3, <3>2, OlderFacts
    <3>5. /\ prev' \in [Printers -> Int]
          /\ \A p \in Printers : prev'[p] = IF p \in Watched THEN Older(fresh, Stale)[p] ELSE Never
      BY <3>1, <3>4 DEF Forget, Never
    <3>6. warm \cap passed = {}
      BY <1>2, <3>3 DEF Broken
    <3>7. ColdAfterBreak'
      BY <1>2, <3>1, <3>6 DEF ColdAfterBreak
    <3>8. ASSUME NEW p \in passed' \cap Printers PROVE prev'[p] = Never
      <4>1. CASE p \notin Watched
        BY <3>5, <4>1
      <4>2. CASE p \in Watched
        <5>1. p \in passed /\ p \notin sampled
          BY <3>1, <4>2
        <5>2. fresh[p] = Never
          BY <1>2, <3>2, <5>1 DEF Broken
        <5>3. QED
          BY <3>4, <3>5, <4>2, <5>2
      <4>3. QED
        BY <4>1, <4>2
    <3>9. QED
      BY <3>5, <3>7, <3>8 DEF Broken
  <2>3. QED
    BY <1>1, <2>1, <2>2
<1>6. Typed'
  <2>1. age' \in [Printers -> Int] /\ shipped' \in [Printers -> Int]
    BY <1>1, <1>2, <1>3, OlderFacts DEF Typed
  <2>2. QED
    BY <1>1, <1>2, <1>5, <2>1 DEF Typed
<1>7. ModelVerified'
  BY <1>1, <1>2 DEF ModelVerified
<1>8. QED
  BY <1>1, <1>4, <1>5, <1>6, <1>7 DEF IInv, Pool, HangingDoNotStarve, NoBlackout

\* The detector's thread, beside the beats.
LEMMA BootKeeps == IInv /\ Boot => IInv'
<1> SUFFICES ASSUME IInv, Boot PROVE IInv'
  OBVIOUS
<1>1. UNCHANGED <<configVars, schedVars, poolVars, watchVars, pc>>
  BY DEF Boot, CheckCache, Fetch, Verify, Load, BootStep
<1>2. ModelVerified'
  BY DEF Boot, CheckCache, Fetch, Verify, Load, BootStep, IInv, ModelVerified
<1>3. Typed' /\ Stamps' /\ Broken' /\ ColdAfterBreak' /\ NoBlackout'
  BY <1>1 DEF IInv, Typed, Stamps, Broken, ColdAfterBreak, NoBlackout, Interval,
              configVars, schedVars, poolVars, watchVars
<1>4. Pool'
  BY <1>1 DEF IInv, Pool, Results, configVars, poolVars
<1>5. HangingDoNotStarve'
  BY <1>1 DEF IInv, HangingDoNotStarve, Outlasts, FirstWave, configVars, poolVars
<1>6. QED
  BY <1>2, <1>3, <1>4, <1>5 DEF IInv

\* The printers, cameras and configuration change between beats, and kills.
LEMMA EnvironmentKeeps == IInv /\ Environment => IInv'
<1> SUFFICES ASSUME IInv, Environment PROVE IInv'
  OBVIOUS
<1>1. Typed /\ Stamps /\ Broken /\ ColdAfterBreak /\ ModelVerified
  BY DEF IInv
<1>2. ASSUME pc = "idle", Change, act' \in [Printers -> {"idle", "edge", "mid"}]
      PROVE  IInv'
  <2>1. UNCHANGED <<schedVars, poolVars, watchVars, bootVars, pc>>
    BY <1>2 DEF Change
  <2>2. Typed' /\ Stamps' /\ Broken' /\ ColdAfterBreak' /\ ModelVerified'
    BY <1>1, <1>2, <2>1 DEF Typed, Stamps, Broken, ColdAfterBreak, ModelVerified,
                            schedVars, poolVars, watchVars, bootVars
  <2>3. QED
    BY <1>2, <2>1, <2>2 DEF IInv, Pool, HangingDoNotStarve, NoBlackout
<1>3. ASSUME NEW p \in Printers, NEW c, SetConfig(p, c) PROVE IInv'
  BY <1>1, <1>2, <1>3 DEF SetConfig, Typed
<1>4. ASSUME NEW p \in Printers, NEW a \in {"idle", "edge", "mid"}, SetAct(p, a) PROVE IInv'
  BY <1>1, <1>2, <1>4 DEF SetAct, Typed
<1>5. ASSUME NEW p \in Printers, NEW c, SetCamera(p, c) PROVE IInv'
  BY <1>1, <1>2, <1>5 DEF SetCamera, Typed
<1>6. ASSUME Kill PROVE IInv'
  <2>1. Typed' /\ Stamps' /\ Broken'
    BY <1>1, <1>6 DEF Kill, configVars, Typed, Stamps, Broken, None, Never
  <2>2. ColdAfterBreak' /\ ModelVerified'
    BY <1>1, <1>6 DEF Kill, ColdAfterBreak, ModelVerified
  <2>3. pc' = "idle"
    BY <1>6 DEF Kill
  <2>4. QED
    BY <2>1, <2>2, <2>3 DEF IInv, Pool, HangingDoNotStarve, NoBlackout
<1>7. QED
  BY <1>3, <1>4, <1>5, <1>6 DEF Environment

\* Stuttering.
LEMMA StutterKeeps == IInv /\ UNCHANGED vars => IInv'
<1> SUFFICES ASSUME IInv, UNCHANGED vars PROVE IInv'
  OBVIOUS
<1>1. UNCHANGED <<configVars, schedVars, poolVars, watchVars, bootVars, pc>>
  BY DEF vars
<1>2. Typed' /\ Stamps' /\ Broken' /\ ColdAfterBreak' /\ NoBlackout' /\ ModelVerified'
  BY <1>1 DEF IInv, Typed, Stamps, Broken, ColdAfterBreak, NoBlackout, ModelVerified, Interval,
              configVars, schedVars, poolVars, watchVars, bootVars
<1>3. Pool'
  BY <1>1 DEF IInv, Pool, Results, configVars, poolVars
<1>4. HangingDoNotStarve'
  BY <1>1 DEF IInv, HangingDoNotStarve, Outlasts, FirstWave, configVars, poolVars
<1>5. QED
  BY <1>2, <1>3, <1>4 DEF IInv

\* Every step keeps the invariant.
LEMMA StepKeeps == IInv /\ [Next]_vars => IInv'
BY CollectFramesKeeps, CapturedKeeps, CollectDoneKeeps, WatchKeeps, BootKeeps, EnvironmentKeeps,
   StutterKeeps DEF Next, Beat

-------------------------------------------------------------------------------
(* The theorems. *)

\* The inductive invariant.
LEMMA Invariant == Spec => []IInv
BY InitHolds, StepKeeps, PTL DEF Spec

\* collect_camera_frames: however many printers and workers there are, if fewer captures
\* outlast the deadline than there are workers, every due printer whose camera answers
\* gets its frame in that beat.
THEOREM NobodyStarves == Spec => []HangingDoNotStarve
<1>1. IInv => HangingDoNotStarve
  BY DEF IInv
<1>2. QED
  BY Invariant, <1>1, PTL

\* CameraScheduler marks on success: for any cadences, a camera-enabled printer left out
\* of a beat has a frame younger than the interval of its state.
THEOREM NoPrinterGoesDark == Spec => []NoBlackout
<1>1. IInv => NoBlackout
  BY DEF IInv
<1>2. QED
  BY Invariant, <1>1, PTL

\* CameraScheduler.forget: a printer that was off in one beat is due in the first one that
\* finds it on.
THEOREM BackOnIsDue == Spec => ReenabledIsDue
<1> DEFINE Due == \A p \in Printers : p \in eligible' /\ p \notin eligible => p \in due'
<1>1. IInv /\ [Next]_vars => [Due]_eligible
  <2> SUFFICES ASSUME IInv, [Next]_vars, eligible' # eligible PROVE Due
    OBVIOUS
  <2>1. CASE CollectFrames
    <3> SUFFICES ASSUME NEW p \in Printers, p \in eligible', p \notin eligible PROVE p \in due'
      OBVIOUS
    <3>1. age[p] = Never
      BY DEF IInv, Stamps
    <3>2. Forget(age, Eligible, Never)[p] = Never
      BY <3>1 DEF IInv, Typed, Forget
    <3>3. QED
      BY <2>1, <3>2 DEF CollectFrames, ShouldCapture
  <2>2. CASE Kill
    BY <2>2 DEF Kill
  <2>3. QED
    BY <2>1, <2>2 DEF Next, Beat, Boot, Environment, vars, schedVars, Captured, CollectDone, Watch,
       CheckCache, Fetch, Verify, Load, BootStep, SetConfig, SetAct, SetCamera, Change
<1>2. QED
  BY Invariant, <1>1, PTL DEF Spec, ReenabledIsDue

\* TemporalSmoother.forget: a score is never smoothed into one from before a pass of the
\* failure watch that left the printer out.
THEOREM ScoresStartCold == Spec => []ColdAfterBreak
<1>1. IInv => ColdAfterBreak
  BY DEF IInv
<1>2. QED
  BY Invariant, <1>1, PTL

\* download_model: for any number of retries and kills, the file a session is built from
\* had its hash checked in this process.
THEOREM OnlyVerifiedModels == Spec => []ModelVerified
<1>1. IInv => ModelVerified
  BY DEF IInv
<1>2. QED
  BY Invariant, <1>1, PTL

-------------------------------------------------------------------------------
(* The types. *)

\* What the types need beyond IInv: the pool has no more workers than Workers, the locals
\* of collect_camera_frames are those of its call, and no age is beyond its cap.
Bounded ==
  /\ config \in [Printers -> {"off", "camera", "watch"}]
  /\ age \in [Printers -> Never .. IdleBeats] /\ shipped \in [Printers -> Never .. IdleBeats]
  /\ prev \in [Printers -> Never .. Stale]
  /\ Cardinality(running) <= Workers
  /\ frames \cup failed \subseteq due
  /\ pc # "capture" => running = {} /\ queue = <<>>
  /\ pc = "idle" => due = {}
  /\ boot \in {"check", "fetch", "verify", "load", "active", "stub"}
  /\ model \in {"none", "good", "bad"} /\ tries \in 0 .. Retries

\* The captures the workers take are as many as they are places in the queue.
LEMMA TakenCount ==
  ASSUME NEW w \in Seq(Printers), IsInjective(w), NEW n \in 0 .. Len(w)
  PROVE  IsFiniteSet({w[i] : i \in 1 .. n}) /\ Cardinality({w[i] : i \in 1 .. n}) = n
<1> DEFINE taken == {w[i] : i \in 1 .. n}
           rest == SubSeq(w, n + 1, Len(w))
<1>1. /\ taken \subseteq Printers /\ IsFiniteSet(taken) /\ Cardinality(taken) = n
      /\ rest \in Seq(Printers) /\ IsInjective(rest) /\ (rest # <<>> => n < Len(w))
      /\ taken \cup ToSet(rest) = ToSet(w) /\ taken \cap ToSet(rest) = {}
  BY CutInTwo
<1>2. QED
  BY <1>1

\* Fill gives no worker a second capture.
LEMMA FillLimit ==
  ASSUME NEW w \in Seq(Printers), IsInjective(w), NEW b \in SUBSET Printers,
         Cardinality(b) <= Workers, Fill(w, b)
  PROVE  Cardinality(running') <= Workers
<1> DEFINE n == Started(w, b)
           taken == {w[i] : i \in 1 .. n}
<1>1. running' = b \cup taken
  BY DEF Fill
<1>2. IsFiniteSet(b) /\ Cardinality(b) \in Nat /\ Workers \in Nat
  BY PrintersFinite, FS_Subset, FS_CardinalityType, CamerasAssumption
<1>3. /\ n \in 0 .. Len(w)
      /\ Cardinality(b) + n <= Workers
  <2>1. Len(w) \in Nat
    OBVIOUS
  <2>2. QED
    BY <1>2, <2>1 DEF Started
<1> HIDE DEF n
<1>4. IsFiniteSet(taken) /\ Cardinality(taken) = n
  BY <1>3, TakenCount
<1> HIDE DEF taken
<1>5. Cardinality(b \cup taken) = Cardinality(b) + Cardinality(taken) - Cardinality(b \cap taken)
  BY <1>2, <1>4, FS_Union
<1>6. Cardinality(b \cap taken) \in Nat
  BY <1>2, FS_Subset, FS_CardinalityType
<1>7. QED
  BY <1>1, <1>2, <1>3, <1>4, <1>5, <1>6

\* Growing older stops at the cap.
LEMMA OlderBounded ==
  ASSUME NEW cap \in Nat, NEW f \in [Printers -> Never .. cap]
  PROVE  Older(f, cap) \in [Printers -> Never .. cap]
BY DEF Older, Never

\* Every step keeps them.
LEMMA BoundedKeeps == IInv /\ Bounded /\ [Next]_vars => Bounded'
<1> SUFFICES ASSUME IInv, Bounded, [Next]_vars PROVE Bounded'
  OBVIOUS
<1>a. IdleBeats \in Nat /\ Stale \in Nat /\ Workers \in Nat \ {0} /\ Retries \in Nat /\ IdleBeats <= Stale
  BY CamerasAssumption DEF Stale
<1>1. CASE CollectFrames
  <2> DEFINE now == {p \in {q \in Printers : config[q] # "off"} :
                       ShouldCapture(p, Forget(lastState, Eligible, Unseen), Forget(age, Eligible, Never))}
             w == Keep(Targets, now)
  <2>1. /\ due' = now /\ Fill(w, {}) /\ frames' = {} /\ failed' = {} /\ pc' = "capture"
        /\ age' = Forget(age, Eligible, Never)
        /\ UNCHANGED <<config, shipped, prev, boot, model, tries>>
    BY <1>1 DEF CollectFrames, configVars, watchVars, bootVars
  <2>2. w \in Seq(Printers) /\ IsInjective(w)
    BY CamerasAssumption, KeepProperties
  <2>3. Cardinality({}) <= Workers
    BY <1>a, FS_EmptySet
  <2>4. Cardinality(running') <= Workers
    <3> HIDE DEF w
    <3>1. QED
      BY <2>1, <2>2, <2>3, FillLimit
  <2>5. age' \in [Printers -> Never .. IdleBeats]
    BY <2>1, <1>a DEF Bounded, Forget, Never
  <2>6. QED
    BY <2>1, <2>4, <2>5 DEF Bounded
<1>2. ASSUME NEW p \in Printers, Captured(p) PROVE Bounded'
  <2>1. /\ pc = "capture" /\ p \in running /\ Fill(queue, running \ {p})
        /\ frames' \cup failed' \subseteq frames \cup failed \cup {p}
        /\ UNCHANGED <<config, age, shipped, due, prev, boot, model, tries, pc>>
    BY <1>2 DEF Captured, configVars, schedVars, watchVars, bootVars
  <2>2. queue \in Seq(Printers) /\ IsInjective(queue) /\ running \subseteq Printers /\ p \in due
    BY <2>1 DEF IInv, Pool
  <2>3. Cardinality(running \ {p}) <= Workers
    <3>1. IsFiniteSet(running)
      BY <2>2, PrintersFinite, FS_Subset
    <3>2. Cardinality(running \ {p}) <= Cardinality(running) /\ Cardinality(running \ {p}) \in Nat /\ Cardinality(running) \in Nat
      BY <3>1, FS_Subset, FS_CardinalityType
    <3>3. QED
      BY <1>a, <3>2 DEF Bounded
  <2>4. Cardinality(running') <= Workers
    <3>1. running \ {p} \in SUBSET Printers
      BY <2>2
    <3>2. QED
      BY <2>1, <2>2, <2>3, <3>1, FillLimit
  <2>5. QED
    BY <2>1, <2>2, <2>4 DEF Bounded
<1>3. CASE CollectDone
  <2>1. /\ age' = [p \in Printers |-> IF p \in frames THEN 0 ELSE age[p]]
        /\ shipped' = [p \in Printers |-> IF p \in frames THEN 0 ELSE shipped[p]]
        /\ running' = {} /\ queue' = <<>> /\ failed' \subseteq due /\ pc' = "watch"
        /\ UNCHANGED <<config, due, frames, prev, boot, model, tries>>
    BY <1>3 DEF CollectDone, Stamped, Unfinished, configVars, watchVars, bootVars
  <2>2. age' \in [Printers -> Never .. IdleBeats] /\ shipped' \in [Printers -> Never .. IdleBeats]
    BY <1>a, <2>1 DEF Bounded, Never
  <2>3. Cardinality(running') <= Workers
    BY <1>a, <2>1, FS_EmptySet
  <2>4. QED
    BY <2>1, <2>2, <2>3 DEF Bounded
<1>4. CASE Watch
  <2>1. /\ age' = Older(age, IdleBeats) /\ shipped' = Older(shipped, IdleBeats) /\ pc = "watch" /\ pc' = "idle"
        /\ due' = {} /\ frames' = {} /\ failed' = {}
        /\ NoSample \/ \E raised \in SUBSET frames : Sample(raised)
        /\ UNCHANGED <<config, queue, running, boot, model, tries>>
    BY <1>4 DEF Watch, configVars, bootVars
  <2>2. age' \in [Printers -> Never .. IdleBeats] /\ shipped' \in [Printers -> Never .. IdleBeats]
    BY <1>a, <2>1, OlderBounded DEF Bounded
  <2>3. prev' \in [Printers -> Never .. Stale]
    <3>1. CASE NoSample
      BY <1>a, <3>1, OlderBounded DEF NoSample, Bounded
    <3>2. ASSUME NEW raised, Sample(raised) PROVE prev' \in [Printers -> Never .. Stale]
      <4> DEFINE at == [p \in Printers |-> IF p \in Watched \ raised THEN 0 ELSE prev[p]]
      <4>1. at \in [Printers -> Never .. Stale]
        BY <1>a DEF Bounded, Never
      <4>2. Older(at, Stale) \in [Printers -> Never .. Stale]
        <5> HIDE DEF at
        <5>1. QED
          BY <1>a, <4>1, OlderBounded
      <4>3. prev' = Forget(Older(at, Stale), Kept, Never)
        BY <3>2 DEF Sample
      <4> HIDE DEF at
      <4>4. QED
        BY <1>a, <4>2, <4>3 DEF Forget, Never
    <3>3. QED
      BY <2>1, <3>1, <3>2
  <2>4. QED
    BY <2>1, <2>2, <2>3 DEF Bounded
<1>5. CASE Boot
  <2>1. UNCHANGED <<config, age, shipped, prev, due, queue, running, frames, failed, pc>>
    BY <1>5 DEF Boot, CheckCache, Fetch, Verify, Load, BootStep, configVars, schedVars, poolVars, watchVars
  <2>2. /\ boot' \in {"check", "fetch", "verify", "load", "active", "stub"}
        /\ model' \in {"none", "good", "bad"} /\ tries' \in 0 .. Retries
    BY <1>a, <1>5 DEF Boot, CheckCache, Fetch, Verify, Load, BootStep, Bounded
  <2>3. QED
    BY <2>1, <2>2 DEF Bounded
<1>6. ASSUME NEW p \in Printers, NEW c \in {"off", "camera", "watch"}, SetConfig(p, c) PROVE Bounded'
  BY <1>6 DEF SetConfig, Change, schedVars, poolVars, watchVars, bootVars, Bounded
<1>7. CASE \E p \in Printers : \/ \E a \in {"idle", "edge", "mid"} : SetAct(p, a)
                               \/ \E c \in {"ok", "broken", "hangs"} : SetCamera(p, c)
  BY <1>7 DEF SetAct, SetCamera, Change, schedVars, poolVars, watchVars, bootVars, Bounded
<1>8. CASE Kill
  <2>1. Cardinality({}) <= Workers
    BY <1>a, FS_EmptySet
  <2>2. QED
    BY <1>a, <1>8, <2>1 DEF Kill, configVars, None, Never, Bounded
<1>9. CASE UNCHANGED vars
  BY <1>9 DEF vars, configVars, schedVars, poolVars, watchVars, bootVars, Bounded
<1>10. QED
  BY <1>1, <1>2, <1>3, <1>4, <1>5, <1>6, <1>7, <1>8, <1>9 DEF Next, Beat, Environment

\* The types of Cameras: collect_camera_frames never runs more captures than it has
\* workers, and hands over and keeps nothing of a printer that was not due.
THEOREM TypesHold == Spec => []TypeOK
<1>a. IdleBeats \in Nat /\ Workers \in Nat \ {0} /\ Retries \in Nat
  BY CamerasAssumption
<1>1. Init => Bounded
  <2> SUFFICES ASSUME Init PROVE Bounded
    OBVIOUS
  <2>1. Cardinality({}) <= Workers
    BY <1>a, FS_EmptySet
  <2>2. QED
    BY <1>a, <2>1 DEF Init, None, Never, Stale, Bounded
<1>2. IInv /\ Bounded => TypeOK
  <2> SUFFICES ASSUME IInv, Bounded PROVE TypeOK
    OBVIOUS
  <2>1. {age, prev, shipped} \subseteq [Printers -> Never .. Stale]
    BY <1>a DEF Bounded, Stale, Never
  <2>2. running \cup ToSet(queue) \cup frames \cup failed \subseteq due
    <3>1. CASE pc = "capture"
      BY <3>1 DEF IInv, Pool
    <3>2. CASE pc # "capture"
      BY <3>2 DEF Bounded, ToSet
    <3>3. QED
      BY <3>1, <3>2
  <2>3. QED
    BY <2>1, <2>2 DEF IInv, Typed, Bounded, TypeOK
<1>3. QED
  BY <1>1, <1>2, BoundedKeeps, Invariant, PTL DEF Spec
===============================================================================
