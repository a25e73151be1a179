------------------------------ MODULE BeatProofs ------------------------------
(***************************************************************************)
(* Proofs about what the heartbeat delivers.  HubBeat: a command is acted  *)
(* on once, no result is lost, the adapters are those of the configuration *)
(* announced, and neither a restart request nor a release sends the agent  *)
(* into a loop.  PrintJobs (the second half): no Bambu print is billed     *)
(* twice, no record merges prints it does not own up to, and no record     *)
(* goes missing silently.  For any number of requests, prints, frames,     *)
(* redeliveries, teardowns and deaths, and any caps.                       *)
(***************************************************************************)
EXTENDS HubBeat, Billing, ListsProofs

Configs == {"none", "incomplete", "other"} \cup Facts

Typed ==
  /\ cloud \in [cfg : Configs, ver : Nat, nonce : Nat, target : Nat, cred : Nat]
  /\ disk \in [cred : Nat, release : Nat, attempt : Nat, fresh : BOOLEAN]
  /\ unit \in Nat /\ ver \in Nat /\ seen \in Int /\ exits \in Nat
  /\ answer \in [ver : Nat, target : Nat, work : Seq(Requests), done : Nat, missed : BOOLEAN]
  /\ guard \in Seq(ToSet(Commands)) /\ results \in Seq(Requests)
  /\ acts \in [ToSet(Commands) -> Nat]
  /\ tried \in [release : Nat, fresh : BOOLEAN]
  /\ pc \in {"boot", "idle", "pull", "update", "work"}

\* What the beat has reported and what it still has to do come from one answer.
OneAnswer ==
  /\ Len(results) + Len(answer.work) <= ResultMax
  /\ pc = "work" => answer.work # <<>>

\* A command the printer acted on is in the guard.
Guarded == \A c \in ToSet(Commands) : acts[c] >= 1 => c \in ToSet(guard)

\* The configuration's version only grows, and an answer's is one that was.
Versions == answer.ver <= cloud.ver

\* A restart uses up the nonce it was for.
Nonces == seen # -1 => exits <= seen /\ seen <= cloud.nonce

\* last_update.json outlives the process that triggered the update.
Noted == tried.fresh => disk.fresh /\ disk.attempt = tried.release

IInv ==
  /\ Typed /\ OneAnswer /\ Guarded /\ Versions /\ Nonces /\ Noted
  /\ RunOnce /\ NoResultLost /\ CurrentPrinters /\ NoRestartLoop

-------------------------------------------------------------------------------
(* Lists of requests. *)

\* The caps as the arguments below use them.
LEMMA Caps ==
  /\ ResultMax \in Nat \ {0} /\ DeliverMax \in Nat /\ DeliverMax <= ResultMax
  /\ GuardMax \in Nat \ {0} /\ Releases \subseteq Nat /\ Facts # {}
BY HubBeatAssumption

\* The queries and commands of a beat, in the order they are run.
LEMMA RequestLists ==
  /\ Order \in Seq(Requests) /\ ToSet(Commands) \subseteq Requests
  /\ \A r \in Requests : r \notin ToSet(Probes) => r \in ToSet(Commands)
<1>1. /\ Probes \in Seq(ToSet(Probes) \cup ToSet(Commands))
      /\ Commands \in Seq(ToSet(Probes) \cup ToSet(Commands))
  BY HubBeatAssumption
<1>2. Requests = ToSet(Probes) \cup ToSet(Commands)
  BY <1>1, ConcatSet DEF Requests, Order
<1>3. QED
  BY <1>1, <1>2 DEF Order

\* The work of an answer is a list of requests that fits into the next payload.
LEMMA WorkFits ==
  ASSUME NEW batch \in SUBSET Requests, Cardinality(batch) <= DeliverMax
  PROVE  Keep(Order, batch) \in Seq(Requests) /\ Len(Keep(Order, batch)) <= ResultMax
<1> DEFINE w == Keep(Order, batch)
<1>1. w \in Seq(Requests) /\ ToSet(w) = ToSet(Order) \cap batch /\ IsInjective(w)
  BY HubBeatAssumption, RequestLists, KeepProperties
<1> HIDE DEF w
<1>2. ToSet(w) = batch
  BY <1>1 DEF Requests
<1>3. Cardinality(ToSet(w)) = Len(w)
  BY <1>1, InjectiveCount
<1>4. Len(w) \in Nat /\ Len(w) <= DeliverMax
  BY <1>1, <1>2, <1>3
<1>5. Len(w) <= ResultMax
  BY <1>4, HubBeatAssumption
<1>6. QED
  BY <1>1, <1>5 DEF w

\* The payload carries every result that waits.
LEMMA PayloadIsAll ==
  ASSUME IInv
  PROVE  Payload = ToSet(results)
<1>1. results \in Seq(Requests) /\ answer.work \in Seq(Requests)
  BY DEF IInv, Typed
<1>2. Len(results) \in Nat /\ Len(answer.work) \in Nat /\ Len(results) <= ResultMax
  BY <1>1, HubBeatAssumption DEF IInv, OneAnswer
<1>3. (IF Len(results) < ResultMax THEN Len(results) ELSE ResultMax) = Len(results)
  BY <1>2, HubBeatAssumption
<1>4. SubSeq(results, 1, Len(results)) = results
  BY <1>1
<1>5. QED
  BY <1>3, <1>4 DEF Payload

-------------------------------------------------------------------------------
(* Every action preserves the invariant. *)

\* The two halves of CurrentPrinters.
Runs ==
  ver # 0 =>
    CASE pulled = "none"       -> adapter = "none" /\ ~static
      [] pulled = "incomplete" -> adapter = "none" /\ static
      [] pulled = "other"      -> static
      [] OTHER                 -> adapter = (IF static THEN "none" ELSE pulled)

OnOwnConfig == pc \in {"update", "work"} => ver >= answer.ver \/ answer.missed

\* CurrentPrinters in its two parts: whether the printers run, and on what.
LEMMA Halves == CurrentPrinters <=> Runs /\ OnOwnConfig
BY DEF CurrentPrinters, Runs, OnOwnConfig

\* A fresh process has nothing to answer for.
LEMMA FreshFacts ==
  ASSUME IInv, NEW release, Fresh(release), exits' \in Nat, exits' <= cloud'.nonce,
         cloud' \in [cfg : Configs, ver : Nat, nonce : Nat, target : Nat, cred : Nat],
         disk' \in [cred : Nat, release : Nat, attempt : Nat, fresh : BOOLEAN], unit' \in Nat,
         tried' \in [release : Nat, fresh : BOOLEAN], Noted', ~hammered'
  PROVE  IInv'
<1>1. /\ pc' = "boot" /\ ver' = 0 /\ seen' = -1 /\ answer' = NoAnswer /\ guard' = <<>> /\ results' = <<>>
      /\ acts' = [c \in ToSet(Commands) |-> 0] /\ owed' = {}
  BY DEF Fresh
<1>2. <<>> \in Seq(Requests) /\ <<>> \in Seq(ToSet(Commands)) /\ Len(<<>>) = 0
  OBVIOUS
<1>3. /\ answer' \in [ver : Nat, target : Nat, work : Seq(Requests), done : Nat, missed : BOOLEAN]
      /\ answer'.work = <<>> /\ answer'.ver = 0
  BY <1>1, <1>2 DEF NoAnswer
<1>4. Typed'
  BY <1>1, <1>2, <1>3 DEF Typed
<1>5. OneAnswer'
  BY <1>1, <1>2, <1>3, Caps DEF OneAnswer
<1>6. Guarded' /\ RunOnce'
  BY <1>1 DEF Guarded, RunOnce
<1>7. Versions' /\ Nonces' /\ NoRestartLoop'
  <2>1. cloud'.ver \in Nat
    OBVIOUS
  <2>2. QED
    BY <1>1, <1>3, <2>1 DEF Versions, Nonces, NoRestartLoop
<1>8. NoResultLost'
  BY <1>1 DEF NoResultLost
<1>9. CurrentPrinters'
  BY <1>1 DEF CurrentPrinters
<1>10. QED
  BY <1>4, <1>5, <1>6, <1>7, <1>8, <1>9 DEF IInv

\* A post leaves the memory of what is running alone.
PostFrame ==
  /\ cloud' = cloud /\ disk' = disk /\ unit' = unit /\ ver' = ver /\ seen' = seen
  /\ adapter' = adapter /\ static' = static /\ pulled' = pulled /\ guard' = guard
  /\ acts' = acts /\ exits' = exits /\ tried' = tried /\ hammered' = hammered

\* What every outcome of the POST leaves as it is.
LEMMA PostCommon ==
  ASSUME IInv, PostFrame
  PROVE  Guarded' /\ Nonces' /\ Noted' /\ RunOnce' /\ NoRestartLoop' /\ Runs'
<1>1. Runs
  BY Halves DEF IInv
<1>2. QED
  BY <1>1 DEF PostFrame, IInv, Guarded, Nonces, Noted, RunOnce, NoRestartLoop, Runs

\* PostOk keeps IInv.
LEMMA PostOkStep ==
  ASSUME IInv, PostOk
  PROVE  IInv'
<1> USE DEF PostOk
<1>1. PostFrame
  BY DEF PostFrame, diskVars, loopVars
<1>2. PICK batch \in SUBSET Requests :
        /\ Deliver(batch)
        /\ answer' = [NoAnswer EXCEPT !.ver = cloud.ver, !.target = cloud.target,
                        !.work = Keep(Order, batch)]
  OBVIOUS
<1>3. results' = <<>> /\ pc' = (IF cloud.ver # ver THEN "pull" ELSE "update")
  BY DEF Unreported
<1> HIDE DEF PostOk
<1>4. Keep(Order, batch) \in Seq(Requests) /\ Len(Keep(Order, batch)) <= ResultMax
  BY <1>2, WorkFits DEF Deliver
<1>5. owed' = {}
  BY <1>2, PayloadIsAll DEF Deliver, IInv, NoResultLost
<1>6. cloud.ver \in Nat /\ cloud.target \in Nat /\ ver \in Nat
  BY DEF IInv, Typed
<1>7. answer' = [ver |-> cloud.ver, target |-> cloud.target, work |-> Keep(Order, batch), done |-> 0,
                 missed |-> FALSE]
  BY <1>2 DEF NoAnswer
<1>8. /\ answer' \in [ver : Nat, target : Nat, work : Seq(Requests), done : Nat, missed : BOOLEAN]
      /\ answer'.ver = cloud.ver /\ answer'.work = Keep(Order, batch)
  BY <1>4, <1>6, <1>7
<1>9. Typed'
  BY <1>1, <1>3, <1>8 DEF PostFrame, IInv, Typed
<1>10. OneAnswer'
  <2>1. Len(Keep(Order, batch)) \in Nat /\ Len(<<>>) = 0
    BY <1>4
  <2>2. QED
    BY <1>3, <1>4, <1>8, <2>1 DEF OneAnswer
<1>11. Versions' /\ NoResultLost'
  BY <1>1, <1>5, <1>6, <1>8 DEF PostFrame, Versions, NoResultLost
<1>12. OnOwnConfig'
  BY <1>1, <1>3, <1>6, <1>8 DEF PostFrame, OnOwnConfig
<1>13. Guarded' /\ Nonces' /\ Noted' /\ RunOnce' /\ NoRestartLoop' /\ Runs'
  BY <1>1, PostCommon
<1>14. CurrentPrinters'
  BY <1>12, <1>13 DEF CurrentPrinters, Runs, OnOwnConfig
<1>15. QED
  BY <1>9, <1>10, <1>11, <1>13, <1>14 DEF IInv

\* PostLost keeps IInv.
LEMMA PostLostStep ==
  ASSUME IInv, PostLost \/ PostRefused
  PROVE  IInv'
<1> USE DEF PostLost, PostRefused
<1>1. PostFrame /\ results' = results /\ pc' = pc /\ answer' = answer
  BY DEF PostFrame, diskVars, loopVars, Unreported, histVars
<1>2. owed' \subseteq owed
  BY DEF Deliver, histVars
<1> HIDE DEF PostLost, PostRefused
<1>3. Guarded' /\ Nonces' /\ Noted' /\ RunOnce' /\ NoRestartLoop' /\ Runs'
  BY <1>1, PostCommon
<1>4. Typed' /\ OneAnswer' /\ Versions'
  BY <1>1 DEF PostFrame, IInv, Typed, OneAnswer, Versions
<1>5. NoResultLost'
  BY <1>1, <1>2 DEF IInv, NoResultLost
<1>6. CurrentPrinters'
  BY <1>1 DEF PostFrame, IInv, CurrentPrinters
<1>7. QED
  BY <1>3, <1>4, <1>5, <1>6 DEF IInv

\* PullRestarts keeps IInv.
LEMMA PullRestartsStep ==
  ASSUME IInv, PullRestarts
  PROVE  IInv'
<1> USE DEF PullRestarts
<1>1. /\ Fresh(disk.release) /\ exits' = exits + 1 /\ cloud' = cloud /\ disk' = disk /\ unit' = unit
      /\ tried' = tried /\ hammered' = hammered /\ seen # -1 /\ seen # cloud.nonce
  BY DEF diskVars, RestartRequested
<1> HIDE DEF PullRestarts
<1>2. exits \in Nat /\ seen \in Int /\ cloud.nonce \in Nat
  BY DEF IInv, Typed
<1>3. exits <= seen /\ seen <= cloud.nonce
  BY <1>1 DEF IInv, Nonces
<1>4. exits' \in Nat /\ exits' <= cloud'.nonce
  BY <1>1, <1>2, <1>3
<1>5. Noted' /\ ~hammered'
  BY <1>1 DEF IInv, Noted, NoRestartLoop
<1>6. /\ cloud' \in [cfg : Configs, ver : Nat, nonce : Nat, target : Nat, cred : Nat]
      /\ disk' \in [cred : Nat, release : Nat, attempt : Nat, fresh : BOOLEAN] /\ unit' \in Nat
      /\ tried' \in [release : Nat, fresh : BOOLEAN]
  BY <1>1 DEF IInv, Typed
<1>7. QED
  BY <1>1, <1>4, <1>5, <1>6, FreshFacts

\* What a pull does not touch.
PullFrame ==
  /\ cloud' = cloud /\ disk' = disk /\ unit' = unit /\ guard' = guard /\ results' = results
  /\ acts' = acts /\ owed' = owed /\ exits' = exits /\ tried' = tried /\ hammered' = hammered
  /\ pc' = AfterPull /\ pc \in {"boot", "pull"}

\* What every outcome of the config pull leaves as it is.
LEMMA PullCommon ==
  ASSUME IInv, PullFrame
  PROVE  Guarded' /\ Noted' /\ RunOnce' /\ NoResultLost' /\ NoRestartLoop' /\ pc' \in {"idle", "update"}
BY DEF PullFrame, AfterPull, IInv, Guarded, Noted, RunOnce, NoResultLost, NoRestartLoop

\* PullOk keeps IInv.
LEMMA PullOkStep ==
  ASSUME IInv, PullOk
  PROVE  IInv'
<1> USE DEF PullOk
<1>1. PullFrame /\ answer' = answer /\ seen' = cloud.nonce /\ ver' = cloud.ver /\ pulled' = cloud.cfg
  BY DEF PullFrame, diskVars, histVars
<1>2. PICK s \in Reconcile(cloud.cfg) : adapter' = s.adapter /\ static' = s.static
  OBVIOUS
<1> HIDE DEF PullOk
<1>3. Guarded' /\ Noted' /\ RunOnce' /\ NoResultLost' /\ NoRestartLoop' /\ pc' \in {"idle", "update"}
  BY <1>1, PullCommon
<1>4. cloud.ver \in Nat /\ cloud.nonce \in Nat /\ answer.ver \in Nat
  BY DEF IInv, Typed
<1>5. Typed'
  <2>1. seen' \in Int /\ ver' \in Nat /\ pc' \in {"boot", "idle", "pull", "update", "work"}
    BY <1>1, <1>3, <1>4
  <2>2. /\ cloud' = cloud /\ disk' = disk /\ unit' = unit /\ guard' = guard /\ results' = results
        /\ acts' = acts /\ exits' = exits /\ tried' = tried /\ answer' = answer
    BY <1>1 DEF PullFrame
  <2>3. QED
    BY <2>1, <2>2 DEF IInv, Typed
<1>6. OneAnswer' /\ Versions' /\ Nonces'
  BY <1>1, <1>3, <1>4 DEF PullFrame, IInv, OneAnswer, Versions, Nonces, NoRestartLoop
<1>7. Runs'
  <2>1. CASE cloud.cfg = "none"
    <3>1. adapter' = "none" /\ static' = FALSE
      BY <1>2, <2>1 DEF Reconcile
    <3>2. QED
      BY <1>1, <2>1, <3>1 DEF Runs
  <2>2. CASE cloud.cfg = "incomplete"
    <3>1. adapter' = "none" /\ static' = TRUE
      BY <1>2, <2>2 DEF Reconcile
    <3>2. QED
      BY <1>1, <2>2, <3>1 DEF Runs
  <2>3. CASE cloud.cfg = "other"
    <3>1. static' = TRUE
      BY <1>2, <2>3 DEF Reconcile
    <3>2. QED
      BY <1>1, <2>3, <3>1 DEF Runs
  <2>4. CASE cloud.cfg \notin {"none", "incomplete", "other"}
    <3>1. (adapter' = cloud.cfg /\ static' = FALSE) \/ (adapter' = "none" /\ static' = TRUE)
      BY <1>2, <2>4 DEF Reconcile
    <3>2. QED
      BY <1>1, <2>4, <3>1 DEF Runs
  <2>5. QED
    BY <2>1, <2>2, <2>3, <2>4
<1>8. OnOwnConfig'
  BY <1>1, <1>4 DEF IInv, Versions, OnOwnConfig
<1>9. CurrentPrinters'
  BY <1>7, <1>8 DEF CurrentPrinters, Runs, OnOwnConfig
<1>10. QED
  BY <1>3, <1>5, <1>6, <1>9 DEF IInv

\* PullFailed keeps IInv.
LEMMA PullFailedStep ==
  ASSUME IInv, PullFailed
  PROVE  IInv'
<1> USE DEF PullFailed
<1>1. /\ PullFrame /\ seen' = seen /\ ver' = ver /\ pulled' = pulled /\ adapter' = adapter
      /\ static' = static /\ answer' = [answer EXCEPT !.missed = (pc = "pull")]
  BY DEF PullFrame, diskVars, histVars, loopVars
<1> HIDE DEF PullFailed
<1>2. Guarded' /\ Noted' /\ RunOnce' /\ NoResultLost' /\ NoRestartLoop' /\ pc' \in {"idle", "update"}
  BY <1>1, PullCommon
<1>3. answer \in [ver : Nat, target : Nat, work : Seq(Requests), done : Nat, missed : BOOLEAN]
  BY DEF IInv, Typed
<1>4. /\ answer'.ver = answer.ver /\ answer'.work = answer.work /\ answer'.missed = (pc = "pull")
      /\ answer' \in [ver : Nat, target : Nat, work : Seq(Requests), done : Nat, missed : BOOLEAN]
  BY <1>1, <1>3
<1>5. Typed'
  BY <1>1, <1>2, <1>4 DEF PullFrame, IInv, Typed
<1>6. OneAnswer' /\ Versions' /\ Nonces'
  BY <1>1, <1>2, <1>4 DEF PullFrame, IInv, OneAnswer, Versions, Nonces
<1>7. OnOwnConfig'
  BY <1>1, <1>4 DEF PullFrame, AfterPull, OnOwnConfig
<1>8. Runs'
  BY <1>1 DEF IInv, CurrentPrinters, Runs
<1>9. CurrentPrinters'
  BY <1>7, <1>8 DEF CurrentPrinters, Runs, OnOwnConfig
<1>10. QED
  BY <1>2, <1>5, <1>6, <1>9 DEF IInv

\* The rest of an answer is an answer.
LEMMA RestFacts ==
  ASSUME IInv, NEW work \in Seq(Requests), NEW done \in Nat, Rest(work, done), pc \in {"update", "work"},
         ver' = ver
  PROVE  /\ answer' \in [ver : Nat, target : Nat, work : Seq(Requests), done : Nat, missed : BOOLEAN]
         /\ answer'.work = work /\ pc' \in {"idle", "work"} /\ (pc' = "work" => work # <<>>)
         /\ answer'.ver <= answer.ver /\ answer.ver \in Nat /\ OnOwnConfig'
<1>1. /\ answer \in [ver : Nat, target : Nat, work : Seq(Requests), done : Nat, missed : BOOLEAN]
      /\ ver \in Nat
  BY DEF IInv, Typed
<1>2. CASE work = <<>>
  <2>1. answer' = NoAnswer /\ pc' = "idle"
    BY <1>2 DEF Rest
  <2>2. QED
    BY <1>1, <1>2, <2>1 DEF NoAnswer, OnOwnConfig
<1>3. CASE work # <<>>
  <2>1. pc' = "work" /\ answer' = [answer EXCEPT !.target = 0, !.work = work, !.done = done]
    BY <1>3 DEF Rest
  <2>2. answer' = [ver |-> answer.ver, target |-> 0, work |-> work, done |-> done, missed |-> answer.missed]
    BY <1>1, <2>1
  <2>3. /\ answer' \in [ver : Nat, target : Nat, work : Seq(Requests), done : Nat, missed : BOOLEAN]
        /\ answer'.work = work /\ answer'.ver = answer.ver /\ answer'.missed = answer.missed
    BY <1>1, <2>2
  <2>4. OnOwnConfig'
    BY <2>1, <2>3 DEF IInv, CurrentPrinters, OnOwnConfig
  <2>5. QED
    BY <1>1, <1>3, <2>1, <2>3, <2>4
<1>4. QED
  BY <1>2, <1>3

\* What the three outcomes of the update question have in common.
UpdateFrame ==
  /\ cloud' = cloud /\ ver' = ver /\ seen' = seen /\ adapter' = adapter /\ static' = static
  /\ pulled' = pulled /\ guard' = guard /\ results' = results /\ acts' = acts /\ owed' = owed
  /\ exits' = exits /\ pc = "update" /\ Rest(answer.work, 0)

\* What every branch of the update check leaves as it is.
LEMMA UpdateCommon ==
  ASSUME IInv, UpdateFrame,
         disk' \in [cred : Nat, release : Nat, attempt : Nat, fresh : BOOLEAN], unit' \in Nat,
         tried' \in [release : Nat, fresh : BOOLEAN], Noted', ~hammered'
  PROVE  IInv'
<1> USE DEF UpdateFrame
<1>1. answer.work \in Seq(Requests)
  BY DEF IInv, Typed
<1>2. /\ answer' \in [ver : Nat, target : Nat, work : Seq(Requests), done : Nat, missed : BOOLEAN]
      /\ answer'.work = answer.work /\ pc' \in {"idle", "work"} /\ (pc' = "work" => answer.work # <<>>)
      /\ answer'.ver <= answer.ver /\ answer.ver \in Nat /\ OnOwnConfig'
  BY <1>1, RestFacts
<1>3. Typed'
  BY <1>2 DEF IInv, Typed
<1>4. OneAnswer' /\ Guarded' /\ Nonces' /\ RunOnce' /\ NoResultLost' /\ NoRestartLoop'
  BY <1>2 DEF IInv, OneAnswer, Guarded, Nonces, RunOnce, NoResultLost, NoRestartLoop
<1>5. Versions'
  <2>1. answer'.ver \in Nat /\ cloud.ver \in Nat
    BY <1>2 DEF IInv, Typed
  <2>2. answer.ver <= cloud.ver
    BY DEF IInv, Versions
  <2>3. cloud' = cloud
    OBVIOUS
  <2> HIDE DEF UpdateFrame
  <2>4. answer'.ver <= cloud.ver
    BY <1>2, <2>1, <2>2
  <2>5. QED
    BY <2>3, <2>4 DEF Versions
<1>6. Runs'
  BY DEF IInv, CurrentPrinters, Runs
<1>7. CurrentPrinters'
  BY <1>2, <1>6 DEF CurrentPrinters, Runs, OnOwnConfig
<1>8. QED
  BY <1>3, <1>4, <1>5, <1>7 DEF IInv

\* A release is wanted only when it was not tried within the cooldown.
LEMMA NotHammered ==
  ASSUME IInv, UpdateWanted, NoteTried
  PROVE  /\ ~hammered' /\ tried' \in [release : Nat, fresh : BOOLEAN]
         /\ tried'.release = answer.target
<1>1. tried # [release |-> answer.target, fresh |-> TRUE]
  BY DEF IInv, Noted, UpdateWanted
<1>2. ~hammered
  BY DEF IInv, NoRestartLoop
<1>3. answer.target \in Nat
  BY DEF IInv, Typed
<1>4. QED
  BY <1>1, <1>2, <1>3 DEF NoteTried

\* UpdateTriggered keeps IInv.
LEMMA UpdateTriggeredStep ==
  ASSUME IInv, UpdateTriggered
  PROVE  IInv'
<1> USE DEF UpdateTriggered
<1>1. UpdateFrame
  BY DEF UpdateFrame, loopVars
<1>2. UpdateWanted /\ NoteTried /\ unit' \in {answer.target, unit}
      /\ disk' = [disk EXCEPT !.attempt = answer.target, !.fresh = TRUE]
  BY DEF AttemptNoted
<1> HIDE DEF UpdateTriggered
<1>3. /\ disk \in [cred : Nat, release : Nat, attempt : Nat, fresh : BOOLEAN] /\ unit \in Nat
      /\ answer.target \in Nat
  BY DEF IInv, Typed
<1>4. disk' = [cred |-> disk.cred, release |-> disk.release, attempt |-> answer.target, fresh |-> TRUE]
  BY <1>2, <1>3
<1>5. /\ disk' \in [cred : Nat, release : Nat, attempt : Nat, fresh : BOOLEAN] /\ unit' \in Nat
      /\ disk'.fresh = TRUE /\ disk'.attempt = answer.target
  BY <1>2, <1>3, <1>4
<1>6. /\ ~hammered' /\ tried' \in [release : Nat, fresh : BOOLEAN]
      /\ tried'.release = answer.target
  BY <1>2, NotHammered
<1>7. Noted'
  BY <1>5, <1>6 DEF Noted
<1>8. QED
  BY <1>1, <1>5, <1>6, <1>7, UpdateCommon

\* UpdateSkipped keeps IInv.
LEMMA UpdateSkippedStep ==
  ASSUME IInv, UpdateSkipped
  PROVE  IInv'
<1> USE DEF UpdateSkipped
<1>1. UpdateFrame /\ disk' = disk /\ unit' = unit /\ tried' = tried /\ hammered' = hammered
  BY DEF UpdateFrame, diskVars, loopVars, histVars
<1> HIDE DEF UpdateSkipped
<1>2. /\ disk' \in [cred : Nat, release : Nat, attempt : Nat, fresh : BOOLEAN] /\ unit' \in Nat
      /\ tried' \in [release : Nat, fresh : BOOLEAN]
  BY <1>1 DEF IInv, Typed
<1>3. Noted' /\ ~hammered'
  BY <1>1 DEF IInv, Noted, NoRestartLoop
<1>4. QED
  BY <1>1, <1>2, <1>3, UpdateCommon

\* UpdateExits keeps IInv.
LEMMA UpdateExitsStep ==
  ASSUME IInv, UpdateExits
  PROVE  IInv'
<1> USE DEF UpdateExits
<1>1. PICK image \in {disk.release, answer.target} :
        disk' = [AttemptNoted(TRUE) EXCEPT !.release = image] /\ Fresh(image)
  OBVIOUS
<1>2. UpdateWanted /\ NoteTried /\ cloud' = cloud /\ unit' = unit /\ exits' = exits
  OBVIOUS
<1> HIDE DEF UpdateExits
<1>3. /\ disk \in [cred : Nat, release : Nat, attempt : Nat, fresh : BOOLEAN] /\ unit \in Nat
      /\ answer.target \in Nat /\ exits \in Nat
      /\ cloud \in [cfg : Configs, ver : Nat, nonce : Nat, target : Nat, cred : Nat]
  BY DEF IInv, Typed
<1>4. disk' = [cred |-> disk.cred, release |-> image, attempt |-> answer.target, fresh |-> TRUE]
  BY <1>1, <1>3 DEF AttemptNoted
<1>5. /\ disk' \in [cred : Nat, release : Nat, attempt : Nat, fresh : BOOLEAN]
      /\ disk'.fresh = TRUE /\ disk'.attempt = answer.target
  <2>1. image \in Nat
    BY <1>1, <1>3
  <2>2. QED
    BY <1>3, <1>4, <2>1
<1>6. /\ ~hammered' /\ tried' \in [release : Nat, fresh : BOOLEAN]
      /\ tried'.release = answer.target
  BY <1>2, NotHammered
<1>7. Noted'
  BY <1>5, <1>6 DEF Noted
<1>8. exits <= cloud.nonce
  BY DEF IInv, NoRestartLoop
<1>9. QED
  BY <1>1, <1>2, <1>3, <1>5, <1>6, <1>7, <1>8, FreshFacts

\* UnitInstalls keeps IInv.
LEMMA UnitInstallsStep ==
  ASSUME IInv, UnitInstalls
  PROVE  IInv'
<1> USE DEF UnitInstalls
<1>1. /\ disk' = [disk EXCEPT !.release = unit] /\ unit' = 0 /\ Fresh(unit) /\ cloud' = cloud
      /\ exits' = exits /\ tried' = tried /\ hammered' = hammered
  OBVIOUS
<1> HIDE DEF UnitInstalls
<1>2. /\ disk \in [cred : Nat, release : Nat, attempt : Nat, fresh : BOOLEAN] /\ unit \in Nat
      /\ exits \in Nat /\ tried \in [release : Nat, fresh : BOOLEAN]
      /\ cloud \in [cfg : Configs, ver : Nat, nonce : Nat, target : Nat, cred : Nat]
  BY DEF IInv, Typed
<1>3. /\ disk' \in [cred : Nat, release : Nat, attempt : Nat, fresh : BOOLEAN]
      /\ disk'.fresh = disk.fresh /\ disk'.attempt = disk.attempt
  BY <1>1, <1>2
<1>4. Noted' /\ ~hammered' /\ exits <= cloud.nonce
  BY <1>1, <1>3 DEF IInv, Noted, NoRestartLoop
<1>5. QED
  BY <1>1, <1>2, <1>3, <1>4, FreshFacts

\* Kill keeps IInv.
LEMMA KillStep ==
  ASSUME IInv, Kill
  PROVE  IInv'
<1> USE DEF Kill
<1>1. /\ disk' = disk /\ unit' = unit /\ Fresh(disk.release) /\ cloud' = cloud
      /\ exits' = exits /\ tried' = tried /\ hammered' = hammered
  BY DEF diskVars
<1> HIDE DEF Kill
<1>2. /\ disk \in [cred : Nat, release : Nat, attempt : Nat, fresh : BOOLEAN] /\ unit \in Nat
      /\ exits \in Nat /\ tried \in [release : Nat, fresh : BOOLEAN]
      /\ cloud \in [cfg : Configs, ver : Nat, nonce : Nat, target : Nat, cred : Nat]
  BY DEF IInv, Typed
<1>3. Noted' /\ ~hammered' /\ exits <= cloud.nonce
  BY <1>1 DEF IInv, Noted, NoRestartLoop
<1>4. QED
  BY <1>1, <1>2, <1>3, FreshFacts

\* The environment's actions, which leave the process alone: versions and nonces grow, the
\* record of an attempt goes stale only together with its history.
LEMMA ElsewhereStep ==
  ASSUME IInv, UNCHANGED <<pc, memVars, acts, owed, exits, hammered>>,
         cloud' \in [cfg : Configs, ver : Nat, nonce : Nat, target : Nat, cred : Nat],
         cloud'.ver >= cloud.ver, cloud'.nonce >= cloud.nonce,
         disk' \in [cred : Nat, release : Nat, attempt : Nat, fresh : BOOLEAN], unit' \in Nat,
         tried' \in [release : Nat, fresh : BOOLEAN], Noted'
  PROVE  IInv'
<1>1. /\ pc' = pc /\ ver' = ver /\ seen' = seen /\ adapter' = adapter /\ static' = static
      /\ pulled' = pulled /\ answer' = answer /\ guard' = guard /\ results' = results
      /\ acts' = acts /\ owed' = owed /\ exits' = exits /\ hammered' = hammered
  BY DEF memVars, loopVars
<1>2. Typed'
  BY <1>1 DEF IInv, Typed
<1>3. /\ cloud.ver \in Nat /\ cloud.nonce \in Nat /\ cloud'.ver \in Nat /\ cloud'.nonce \in Nat
      /\ answer.ver \in Nat /\ exits \in Nat /\ seen \in Int
  BY DEF IInv, Typed
<1>4. answer.ver <= cloud.ver /\ exits <= cloud.nonce /\ ~hammered
  BY DEF IInv, Versions, NoRestartLoop
<1>5. Versions' /\ NoRestartLoop'
  BY <1>1, <1>3, <1>4 DEF Versions, NoRestartLoop
<1>6. Nonces'
  BY <1>1, <1>3 DEF IInv, Nonces
<1>7. OneAnswer' /\ Guarded' /\ RunOnce' /\ NoResultLost' /\ CurrentPrinters'
  BY <1>1 DEF IInv, OneAnswer, Guarded, RunOnce, NoResultLost, CurrentPrinters
<1>8. QED
  BY <1>2, <1>5, <1>6, <1>7 DEF IInv

\* The cloud, an enrollment, a failing unit and the cooldown keep IInv.
LEMMA EnvironmentStep ==
  ASSUME IInv, Cloud \/ Enroll \/ UnitFails \/ CooldownPasses
  PROVE  IInv'
<1>1. /\ disk \in [cred : Nat, release : Nat, attempt : Nat, fresh : BOOLEAN] /\ unit \in Nat
      /\ tried \in [release : Nat, fresh : BOOLEAN] /\ Noted
      /\ cloud \in [cfg : Configs, ver : Nat, nonce : Nat, target : Nat, cred : Nat]
  BY DEF IInv, Typed
<1>2. cloud.ver \in Nat /\ cloud.nonce \in Nat /\ cloud.target \in Nat /\ cloud.cred \in Nat /\ cloud.cfg \in Configs
  BY <1>1
<1>3. CASE \E cfg \in Configs \ {cloud.cfg} : EditConfig(cfg)
  <2>1. PICK cfg \in Configs \ {cloud.cfg} : EditConfig(cfg)
    BY <1>3
  <2>2. /\ cloud' = [cloud EXCEPT !.cfg = cfg, !.ver = @ + 1] /\ disk' = disk /\ unit' = unit
        /\ UNCHANGED <<pc, memVars, acts, owed, exits, hammered>> /\ tried' = tried
    BY <2>1 DEF EditConfig, Elsewhere, diskVars, histVars
  <2>3. cloud' = [cfg |-> cfg, ver |-> cloud.ver + 1, nonce |-> cloud.nonce, target |-> cloud.target, cred |-> cloud.cred]
    BY <1>1, <2>2
  <2>4. /\ cloud' \in [cfg : Configs, ver : Nat, nonce : Nat, target : Nat, cred : Nat]
        /\ cloud'.ver >= cloud.ver /\ cloud'.nonce >= cloud.nonce
    BY <1>2, <2>3
  <2>5. Noted'
    BY <1>1, <2>2 DEF Noted
  <2>6. QED
    BY <1>1, <2>2, <2>4, <2>5, ElsewhereStep
<1>4. CASE RequestRestart
  <2>1. /\ cloud' = [cloud EXCEPT !.nonce = @ + 1, !.ver = @ + 1] /\ disk' = disk /\ unit' = unit
        /\ UNCHANGED <<pc, memVars, acts, owed, exits, hammered>> /\ tried' = tried
    BY <1>4 DEF RequestRestart, Elsewhere, diskVars, histVars
  <2>2. cloud' = [cfg |-> cloud.cfg, ver |-> cloud.ver + 1, nonce |-> cloud.nonce + 1, target |-> cloud.target, cred |-> cloud.cred]
    BY <1>1, <2>1
  <2>3. /\ cloud' \in [cfg : Configs, ver : Nat, nonce : Nat, target : Nat, cred : Nat]
        /\ cloud'.ver >= cloud.ver /\ cloud'.nonce >= cloud.nonce
    BY <1>2, <2>2
  <2>4. Noted'
    BY <1>1, <2>1 DEF Noted
  <2>5. QED
    BY <1>1, <2>1, <2>3, <2>4, ElsewhereStep
<1>5. CASE \E t \in Releases \ {cloud.target} : NameRelease(t)
  <2>1. PICK t \in Releases : NameRelease(t) /\ t \in Nat
    BY <1>5, Caps
  <2>2. /\ cloud' = [cloud EXCEPT !.target = t] /\ disk' = disk /\ unit' = unit /\ t \in Nat
        /\ UNCHANGED <<pc, memVars, acts, owed, exits, hammered>> /\ tried' = tried
    BY <2>1 DEF NameRelease, Elsewhere, diskVars, histVars
  <2>3. /\ cloud' \in [cfg : Configs, ver : Nat, nonce : Nat, target : Nat, cred : Nat]
        /\ cloud'.ver >= cloud.ver /\ cloud'.nonce >= cloud.nonce
    BY <1>1, <1>2, <2>2
  <2>4. Noted'
    BY <1>1, <2>2 DEF Noted
  <2>5. QED
    BY <1>1, <2>2, <2>3, <2>4, ElsewhereStep
<1>6. CASE Revoke
  <2>1. /\ cloud' = [cloud EXCEPT !.cred = @ + 1] /\ disk' = disk /\ unit' = unit
        /\ UNCHANGED <<pc, memVars, acts, owed, exits, hammered>> /\ tried' = tried
    BY <1>6 DEF Revoke, Elsewhere, diskVars, histVars
  <2>2. /\ cloud' \in [cfg : Configs, ver : Nat, nonce : Nat, target : Nat, cred : Nat]
        /\ cloud'.ver >= cloud.ver /\ cloud'.nonce >= cloud.nonce
    BY <1>1, <1>2, <2>1
  <2>3. Noted'
    BY <1>1, <2>1 DEF Noted
  <2>4. QED
    BY <1>1, <2>1, <2>2, <2>3, ElsewhereStep
<1>7. CASE \E r \in Requests : Redeliver(r)
  <2>1. /\ cloud' = cloud /\ disk' = disk /\ unit' = unit
        /\ UNCHANGED <<pc, memVars, acts, owed, exits, hammered>> /\ tried' = tried
    BY <1>7 DEF Redeliver, Elsewhere, diskVars, histVars
  <2>2. cloud'.ver >= cloud.ver /\ cloud'.nonce >= cloud.nonce
    BY <1>2, <2>1
  <2>3. Noted'
    BY <1>1, <2>1 DEF Noted
  <2>4. QED
    BY <1>1, <2>1, <2>2, <2>3, ElsewhereStep
<1>8. CASE Enroll
  <2>1. /\ cloud' = cloud /\ disk' = [disk EXCEPT !.cred = cloud.cred] /\ unit' = unit
        /\ UNCHANGED <<pc, memVars, acts, owed, exits, hammered>> /\ tried' = tried
    BY <1>8 DEF Enroll, Elsewhere, histVars
  <2>2. cloud'.ver >= cloud.ver /\ cloud'.nonce >= cloud.nonce
    BY <1>2, <2>1
  <2>3. /\ disk' \in [cred : Nat, release : Nat, attempt : Nat, fresh : BOOLEAN]
        /\ disk'.fresh = disk.fresh /\ disk'.attempt = disk.attempt
    BY <1>1, <1>2, <2>1
  <2>4. Noted'
    BY <1>1, <2>1, <2>3 DEF Noted
  <2>5. QED
    BY <1>1, <2>1, <2>2, <2>3, <2>4, ElsewhereStep
<1>9. CASE UnitFails
  <2>1. /\ cloud' = cloud /\ disk' = disk /\ unit' = 0
        /\ UNCHANGED <<pc, memVars, acts, owed, exits, hammered>> /\ tried' = tried
    BY <1>9 DEF UnitFails, histVars
  <2>2. cloud'.ver >= cloud.ver /\ cloud'.nonce >= cloud.nonce
    BY <1>2, <2>1
  <2>3. Noted'
    BY <1>1, <2>1 DEF Noted
  <2>4. QED
    BY <1>1, <2>1, <2>2, <2>3, ElsewhereStep
<1>10. CASE CooldownPasses
  <2>1. /\ cloud' = cloud /\ disk' = [disk EXCEPT !.fresh = FALSE] /\ unit' = unit
        /\ UNCHANGED <<pc, memVars, acts, owed, exits, hammered>> /\ tried' = [tried EXCEPT !.fresh = FALSE]
    BY <1>10 DEF CooldownPasses
  <2>2. cloud'.ver >= cloud.ver /\ cloud'.nonce >= cloud.nonce
    BY <1>2, <2>1
  <2>3. /\ disk' \in [cred : Nat, release : Nat, attempt : Nat, fresh : BOOLEAN]
        /\ tried' \in [release : Nat, fresh : BOOLEAN] /\ tried'.fresh = FALSE
    BY <1>1, <2>1
  <2>4. Noted'
    BY <2>3 DEF Noted
  <2>5. QED
    BY <1>1, <2>1, <2>2, <2>3, <2>4, ElsewhereStep
<1>11. QED
  BY <1>3, <1>4, <1>5, <1>6, <1>7, <1>8, <1>9, <1>10 DEF Cloud, Configs

\* One request less to do, one result more to report.
LEMMA ReportStep ==
  ASSUME IInv, pc = "work", Report(Head(answer.work)), acts' \in [ToSet(Commands) -> Nat],
         guard' \in Seq(ToSet(Commands)), Guarded', RunOnce'
  PROVE  IInv'
<1> DEFINE r == Head(answer.work)
           done == answer.done + (IF r \in ToSet(Commands) THEN 1 ELSE 0)
<1>1. /\ results' = Append(results, r) /\ owed' = owed \cup {r} /\ Rest(Tail(answer.work), done)
      /\ cloud' = cloud /\ disk' = disk /\ unit' = unit /\ ver' = ver /\ seen' = seen /\ exits' = exits
      /\ adapter' = adapter /\ static' = static /\ pulled' = pulled /\ tried' = tried /\ hammered' = hammered
  BY DEF Report, diskVars, loopVars
<1>2. answer.work \in Seq(Requests) /\ answer.work # <<>> /\ results \in Seq(Requests) /\ answer.done \in Nat
  BY DEF IInv, Typed, OneAnswer
<1>3. /\ r \in Requests /\ Tail(answer.work) \in Seq(Requests) /\ done \in Nat
      /\ Len(answer.work) \in Nat /\ Len(Tail(answer.work)) = Len(answer.work) - 1
  BY <1>2
<1> HIDE DEF r, done
<1>4. /\ results' \in Seq(Requests) /\ Len(results') = Len(results) + 1 /\ Len(results) \in Nat
      /\ ToSet(results') = ToSet(results) \cup {r}
  BY <1>1, <1>2, <1>3, AppendSet
<1>5. /\ answer' \in [ver : Nat, target : Nat, work : Seq(Requests), done : Nat, missed : BOOLEAN]
      /\ answer'.work = Tail(answer.work) /\ pc' \in {"idle", "work"} /\ (pc' = "work" => answer'.work # <<>>)
      /\ answer'.ver <= answer.ver /\ answer.ver \in Nat /\ OnOwnConfig'
  BY <1>1, <1>3, RestFacts
<1>6. Typed'
  BY <1>1, <1>4, <1>5 DEF IInv, Typed
<1>7. OneAnswer'
  <2>1. Len(results) + Len(answer.work) <= ResultMax
    BY DEF IInv, OneAnswer
  <2>2. Len(results') + Len(answer'.work) <= ResultMax
    <3>1. Len(answer'.work) = Len(answer.work) - 1
      BY <1>3, <1>5
    <3>2. Len(results') = Len(results) + 1 /\ Len(results) \in Nat /\ Len(answer.work) \in Nat
      BY <1>3, <1>4
    <3>3. Len(results') + Len(answer'.work) = Len(results) + Len(answer.work)
      <4>1. \A a, b \in Nat : (a + 1) + (b - 1) = a + b
        OBVIOUS
      <4>2. QED
        BY <3>1, <3>2, <4>1, Zenon
    <3>4. QED
      BY <2>1, <3>3
  <2>3. QED
    BY <1>5, <2>2 DEF OneAnswer
<1>8. Versions'
  <2>1. answer'.ver \in Nat /\ cloud.ver \in Nat
    BY <1>5 DEF IInv, Typed
  <2>2. answer.ver <= cloud.ver
    BY DEF IInv, Versions
  <2>3. QED
    BY <1>1, <1>5, <2>1, <2>2 DEF Versions
<1>9. NoResultLost'
  BY <1>1, <1>4 DEF IInv, NoResultLost
<1>10. Nonces' /\ Noted' /\ NoRestartLoop'
  BY <1>1 DEF IInv, Nonces, Noted, NoRestartLoop
<1>11. Runs'
  BY <1>1 DEF IInv, CurrentPrinters, Runs
<1>12. CurrentPrinters'
  BY <1>5, <1>11 DEF CurrentPrinters, Runs, OnOwnConfig
<1>13. QED
  BY <1>6, <1>7, <1>8, <1>9, <1>10, <1>12 DEF IInv

\* A command is sent only when the guard does not hold it, and a positive reply puts it
\* there; what the guard gives up, the history gives up.
LEMMA SendGuards ==
  ASSUME IInv, NEW c \in ToSet(Commands), Send(c)
  PROVE  /\ acts' \in [ToSet(Commands) -> Nat] /\ guard' \in Seq(ToSet(Commands))
         /\ Guarded' /\ RunOnce'
<1>1. guard \in Seq(ToSet(Commands)) /\ acts \in [ToSet(Commands) -> Nat]
  BY DEF IInv, Typed
<1>2. c \notin ToSet(guard) /\ acts[c] = 0
  BY <1>1 DEF Send, Known, IInv, Guarded
<1>3. PICK reply \in KlipperReplies \cup BambuReplies :
        IF reply.ok
        THEN LET kept == IF Len(guard) < GuardMax THEN guard ELSE Tail(guard)
                 gone == ToSet(guard) \ ToSet(kept)
             IN /\ guard' = Append(kept, c)
                /\ acts' = [d \in ToSet(Commands) |->
                              CASE d = c -> acts[c] + (IF reply.acted THEN 1 ELSE 0)
                                [] d \in gone -> 0
                                [] OTHER -> acts[d]]
        ELSE guard' = guard /\ acts' = [acts EXCEPT ![c] = 0]
  BY DEF Send
<1>4. CASE ~reply.ok
  <2>1. guard' = guard /\ acts' = [acts EXCEPT ![c] = 0]
    BY <1>3, <1>4
  <2>2. QED
    BY <1>1, <2>1 DEF IInv, Guarded, RunOnce
<1>5. CASE reply.ok
  <2> DEFINE kept == IF Len(guard) < GuardMax THEN guard ELSE Tail(guard)
             gone == ToSet(guard) \ ToSet(kept)
             more == IF reply.acted THEN 1 ELSE 0
  <2>1. /\ guard' = Append(kept, c)
        /\ acts' = [d \in ToSet(Commands) |->
                      CASE d = c -> acts[c] + more
                        [] d \in gone -> 0
                        [] OTHER -> acts[d]]
    BY <1>3, <1>5
  <2>2. kept \in Seq(ToSet(Commands)) /\ ToSet(kept) \subseteq ToSet(guard)
    <3>1. CASE Len(guard) < GuardMax
      BY <1>1, <3>1
    <3>2. CASE ~(Len(guard) < GuardMax)
      <4>1. guard # <<>>
        BY <1>1, <3>2, Caps
      <4>2. Tail(guard) \in Seq(ToSet(Commands)) /\ ToSet(Tail(guard)) \subseteq ToSet(guard)
        BY <1>1, <4>1, TailSet
      <4>3. QED
        BY <3>2, <4>2
    <3>3. QED
      BY <3>1, <3>2
  <2>3. more \in {0, 1}
    OBVIOUS
  <2> HIDE DEF kept, more
  <2>4. guard' \in Seq(ToSet(Commands)) /\ ToSet(guard') = ToSet(kept) \cup {c}
    BY <2>1, <2>2, AppendSet
  <2>5. acts'[c] = more
    BY <1>2, <2>1, <2>3
  <2>6. \A d \in ToSet(Commands) : d # c => acts'[d] = (IF d \in gone THEN 0 ELSE acts[d])
    BY <2>1
  <2>7. acts' \in [ToSet(Commands) -> Nat]
    BY <1>1, <1>2, <2>1, <2>3
  <2>8. RunOnce'
    BY <2>3, <2>5, <2>6 DEF IInv, RunOnce
  <2>9. Guarded'
    BY <1>1, <2>4, <2>5, <2>6 DEF IInv, Guarded
  <2>10. QED
    BY <2>4, <2>7, <2>8, <2>9
<1>6. QED
  BY <1>4, <1>5

\* WorkStep keeps IInv.
LEMMA WorkStepStep ==
  ASSUME IInv, WorkStep
  PROVE  IInv'
<1> DEFINE r == Head(answer.work)
<1>1. pc = "work" /\ (IF r \in ToSet(Probes) THEN RunProbe(r) ELSE CloseUnsent(r) \/ Send(r))
  BY DEF WorkStep
<1>2. answer.work \in Seq(Requests) /\ answer.work # <<>>
  BY <1>1 DEF IInv, Typed, OneAnswer
<1>3. r \in Requests
  BY <1>2
<1>4. CASE RunProbe(r) \/ CloseUnsent(r)
  <2>1. Report(r) /\ guard' = guard /\ acts' = acts
    BY <1>4 DEF RunProbe, CloseUnsent
  <2>2. /\ acts' \in [ToSet(Commands) -> Nat] /\ guard' \in Seq(ToSet(Commands))
        /\ Guarded' /\ RunOnce'
    BY <2>1 DEF IInv, Typed, Guarded, RunOnce
  <2>3. QED
    BY <1>1, <2>1, <2>2, ReportStep
<1>5. CASE r \notin ToSet(Probes) /\ Send(r)
  <2>1. r \in ToSet(Commands)
    BY <1>3, <1>5, RequestLists
  <2>2. Report(r)
    BY <1>5 DEF Send
  <2>3. QED
    BY <1>1, <1>5, <2>1, <2>2, SendGuards, ReportStep
<1>6. QED
  BY <1>1, <1>4, <1>5

\* IInv holds initially.
LEMMA InitIInv ==
  ASSUME Init
  PROVE  IInv
<1> USE DEF Init
<1>1. <<>> \in Seq(Requests) /\ <<>> \in Seq(ToSet(Commands)) /\ Len(<<>>) = 0
  OBVIOUS
<1>2. /\ answer \in [ver : Nat, target : Nat, work : Seq(Requests), done : Nat, missed : BOOLEAN]
      /\ answer.work = <<>> /\ answer.ver = 0 /\ results = <<>> /\ guard = <<>>
  BY <1>1 DEF NoAnswer
<1>3. /\ cloud \in [cfg : Configs, ver : Nat, nonce : Nat, target : Nat, cred : Nat]
      /\ cloud.ver = 1 /\ cloud.nonce = 0
  <2>1. (CHOOSE f \in Facts : TRUE) \in Configs
    BY Caps DEF Configs
  <2>2. QED
    BY <2>1
<1>4. /\ disk \in [cred : Nat, release : Nat, attempt : Nat, fresh : BOOLEAN]
      /\ tried \in [release : Nat, fresh : BOOLEAN] /\ tried.fresh = FALSE
  OBVIOUS
<1>5. acts \in [ToSet(Commands) -> Nat] /\ \A c \in ToSet(Commands) : acts[c] = 0
  OBVIOUS
<1>6. unit \in Nat /\ ver = 0 /\ seen = -1 /\ exits = 0 /\ pc = "boot" /\ owed = {} /\ hammered = FALSE
  OBVIOUS
<1> HIDE DEF Init
<1>7. Typed
  BY <1>1, <1>2, <1>3, <1>4, <1>5, <1>6 DEF Typed
<1>8. OneAnswer
  BY <1>1, <1>2, <1>6, Caps DEF OneAnswer
<1>9. Guarded /\ RunOnce
  BY <1>5 DEF Guarded, RunOnce
<1>10. Versions /\ Nonces /\ Noted
  BY <1>2, <1>3, <1>4, <1>6 DEF Versions, Nonces, Noted
<1>11. NoResultLost /\ NoRestartLoop /\ CurrentPrinters
  BY <1>3, <1>6 DEF NoResultLost, NoRestartLoop, CurrentPrinters
<1>12. QED
  BY <1>7, <1>8, <1>9, <1>10, <1>11 DEF IInv

\* Every step keeps IInv.
LEMMA NextIInv ==
  ASSUME IInv, [Next]_vars
  PROVE  IInv'
<1>1. CASE PostOk
  BY <1>1, PostOkStep
<1>2. CASE PostLost \/ PostRefused
  BY <1>2, PostLostStep
<1>3. CASE PullOk
  BY <1>3, PullOkStep
<1>4. CASE PullFailed
  BY <1>4, PullFailedStep
<1>5. CASE PullRestarts
  BY <1>5, PullRestartsStep
<1>6. CASE UpdateTriggered
  BY <1>6, UpdateTriggeredStep
<1>7. CASE UpdateExits
  BY <1>7, UpdateExitsStep
<1>8. CASE UpdateSkipped
  BY <1>8, UpdateSkippedStep
<1>9. CASE WorkStep
  BY <1>9, WorkStepStep
<1>10. CASE UnitInstalls
  BY <1>10, UnitInstallsStep
<1>11. CASE Kill
  BY <1>11, KillStep
<1>12. CASE Cloud \/ Enroll \/ UnitFails \/ CooldownPasses
  BY <1>12, EnvironmentStep
<1>13. CASE UNCHANGED vars
  <2> USE <1>13 DEF vars, diskVars, memVars, loopVars, histVars
  <2>1. Typed' /\ OneAnswer' /\ Guarded' /\ Versions' /\ Nonces' /\ Noted'
    BY DEF IInv, Typed, OneAnswer, Guarded, Versions, Nonces, Noted
  <2>2. RunOnce' /\ NoResultLost' /\ CurrentPrinters' /\ NoRestartLoop'
    BY DEF IInv, RunOnce, NoResultLost, CurrentPrinters, NoRestartLoop
  <2>3. QED
    BY <2>1, <2>2 DEF IInv
<1>14. QED
  BY <1>1, <1>2, <1>3, <1>4, <1>5, <1>6, <1>7, <1>8, <1>9, <1>10, <1>11, <1>12, <1>13
  DEF Next, Pull, Update, Machine

-------------------------------------------------------------------------------
(* The theorems. *)

\* IInv is an invariant.
LEMMA Invariance == Spec => []IInv
<1>1. Init => IInv
  BY InitIInv
<1>2. IInv /\ [Next]_vars => IInv'
  BY NextIInv
<1>3. QED
  BY <1>1, <1>2, PTL DEF Spec

\* dispatch_commands' guard: a command the printer acted on with a positive reply is not
\* sent again while the guard remembers it, however often the cloud redelivers it.
THEOREM ActedOnOnce == Spec => []RunOnce
BY Invariance, PTL DEF IInv

\* heartbeat_payload's cap and the clearing of the buffers on a 200 lose no result: a
\* post carries everything that waits, because an answer brings no more than fits.
THEOREM ResultsReachTheCloud == Spec => []NoResultLost
BY Invariance, PTL DEF IInv

\* The adapters are those of the configuration whose version the manager announces, and
\* commands run on the configuration of their answer unless its pull failed (run, reconcile).
THEOREM PrintersAreCurrent == Spec => []CurrentPrinters
BY Invariance, PTL DEF IInv

\* The restart nonce and last_update.json: one exit per restart request, and no release
\* triggered twice within the cooldown, across any number of restarts.
THEOREM NoLoop == Spec => []NoRestartLoop
BY Invariance, PTL DEF IInv

\* What the types need beyond IInv: the guard is capped, and no answer outlives its beat.
Capped ==
  /\ row \in [Requests -> {"open", "taken"}]
  /\ adapter \in {"none"} \cup Facts /\ static \in BOOLEAN
  /\ Len(guard) <= GuardMax
  /\ ver <= cloud.ver
  /\ pc \in {"boot", "idle"} => answer.work = <<>>

\* Every step keeps them.
LEMMA NextCapped ==
  ASSUME IInv, Capped, [Next]_vars
  PROVE  Capped'
<1> USE DEF vars, diskVars, loopVars, memVars, histVars
<1>a. /\ cloud.cfg \in Configs /\ cloud.ver \in Nat /\ Len(guard) \in Nat /\ guard \in Seq(ToSet(Commands))
      /\ answer.work \in Seq(Requests) /\ GuardMax \in Nat \ {0}
  BY Caps DEF IInv, Typed
<1>1. ASSUME NEW release, Fresh(release), UNCHANGED <<cloud, row>> PROVE Capped'
  <2>1. Len(guard') = 0 /\ ver' = 0 /\ answer' = NoAnswer /\ adapter' = "none" /\ static' = FALSE
    BY <1>1 DEF Fresh
  <2>2. answer'.work = <<>>
    BY <2>1 DEF NoAnswer
  <2>3. ver' <= cloud'.ver /\ Len(guard') <= GuardMax
    BY <1>a, <1>1, <2>1
  <2>4. QED
    BY <1>1, <2>1, <2>2, <2>3 DEF Capped
<1>2. ASSUME NEW batch \in SUBSET Requests, Deliver(batch) PROVE row' \in [Requests -> {"open", "taken"}]
  BY <1>2 DEF Deliver, Capped
<1>3. ASSUME NEW work, NEW done, Rest(work, done),
             UNCHANGED <<cloud, row, ver, adapter, static>>, Len(guard') <= GuardMax
      PROVE  Capped'
  <2>1. pc' \in {"boot", "idle"} => answer'.work = <<>>
    BY <1>3 DEF Rest, NoAnswer
  <2>2. QED
    BY <1>3, <2>1 DEF Capped
<1>4. CASE PostOk
  <2>1. row' \in [Requests -> {"open", "taken"}] /\ pc' \in {"pull", "update"}
    BY <1>2, <1>4 DEF PostOk
  <2>2. QED
    BY <1>4, <2>1 DEF PostOk, Capped
<1>5. CASE PostLost \/ PostRefused
  BY <1>2, <1>5 DEF PostLost, PostRefused, Capped
<1>6. CASE PullOk
  <2>1. PICK s \in Reconcile(cloud.cfg) : adapter' = s.adapter /\ static' = s.static
    BY <1>6 DEF PullOk
  <2>2. s.adapter \in {"none"} \cup Facts /\ s.static \in BOOLEAN
    <3>1. CASE cloud.cfg \in {"none", "incomplete"}
      <4>1. s \in {[adapter |-> "none", static |-> FALSE], [adapter |-> "none", static |-> TRUE]}
        BY <2>1, <3>1 DEF Reconcile
      <4>2. QED
        <5>1. CASE s = [adapter |-> "none", static |-> FALSE]
          BY <5>1
        <5>2. CASE s = [adapter |-> "none", static |-> TRUE]
          BY <5>2
        <5>3. QED
          BY <4>1, <5>1, <5>2
    <3>2. CASE cloud.cfg = "other"
      <4>1. s = [adapter |-> adapter, static |-> TRUE]
        BY <2>1, <3>2 DEF Reconcile
      <4>2. QED
        BY <4>1 DEF Capped
    <3>3. CASE cloud.cfg \notin {"none", "incomplete", "other"}
      <4>1. s \in {[adapter |-> cloud.cfg, static |-> FALSE], [adapter |-> "none", static |-> TRUE]}
        BY <2>1, <3>3 DEF Reconcile
      <4>2. cloud.cfg \in Facts
        BY <1>a, <3>3 DEF Configs
      <4>3. QED
        <5>1. CASE s = [adapter |-> cloud.cfg, static |-> FALSE]
          BY <4>2, <5>1
        <5>2. CASE s = [adapter |-> "none", static |-> TRUE]
          BY <5>2
        <5>3. QED
          BY <4>1, <5>1, <5>2
    <3>4. QED
      BY <3>1, <3>2, <3>3
  <2>3. pc' \in {"boot", "idle"} => pc \in {"boot", "idle"}
    BY <1>6 DEF PullOk, AfterPull
  <2>4. QED
    BY <1>a, <1>6, <2>1, <2>2, <2>3 DEF PullOk, Capped
<1>7. CASE PullFailed
  <2>1. answer'.work = answer.work /\ (pc' \in {"boot", "idle"} => pc \in {"boot", "idle"})
    BY <1>7 DEF PullFailed, AfterPull, IInv, Typed
  <2>2. QED
    BY <1>7, <2>1 DEF PullFailed, Capped
<1>8. CASE PullRestarts \/ UpdateExits \/ UnitInstalls \/ Kill
  BY <1>1, <1>8 DEF PullRestarts, UpdateExits, UnitInstalls, Kill
<1>9. CASE UpdateTriggered \/ UpdateSkipped
  BY <1>3, <1>9 DEF UpdateTriggered, UpdateSkipped, Capped
<1>10. CASE WorkStep
  <2>1. PICK r : \/ RunProbe(r) \/ CloseUnsent(r)
                 \/ r \in ToSet(Commands) /\ Send(r)
    <3>1. answer.work # <<>> /\ Head(answer.work) \in Requests
      BY <1>10, <1>a DEF WorkStep, IInv, OneAnswer
    <3>2. QED
      BY <1>10, <3>1, RequestLists DEF WorkStep
  <2>2. Report(r)
    BY <2>1 DEF RunProbe, CloseUnsent, Send
  <2>3. Len(guard') <= GuardMax
    <3>1. CASE guard' = guard
      BY <3>1 DEF Capped
    <3>2. CASE r \in ToSet(Commands) /\ guard' = Append(IF Len(guard) < GuardMax THEN guard ELSE Tail(guard), r)
      BY <1>a, <3>2 DEF Capped
    <3>3. QED
      BY <2>1, <3>1, <3>2 DEF RunProbe, CloseUnsent, Send
  <2>4. QED
    BY <1>3, <2>2, <2>3 DEF Report
<1>11. CASE Cloud \/ Enroll \/ UnitFails \/ CooldownPasses \/ UNCHANGED vars
  <2>1. \/ cloud' = cloud
        \/ cloud'.ver = cloud.ver + 1
        \/ cloud'.ver = cloud.ver
    BY <1>11 DEF Cloud, EditConfig, RequestRestart, NameRelease, Redeliver, Revoke, Enroll, UnitFails,
                 CooldownPasses, IInv, Typed
  <2>2. UNCHANGED <<pc, memVars>>
    BY <1>11 DEF Cloud, EditConfig, RequestRestart, NameRelease, Redeliver, Revoke, Enroll, UnitFails,
                 CooldownPasses, Elsewhere
  <2>3. row' \in [Requests -> {"open", "taken"}]
    BY <1>11 DEF Cloud, EditConfig, RequestRestart, NameRelease, Redeliver, Revoke, Enroll, UnitFails,
                 CooldownPasses, Capped
  <2>4. ver \in Nat
    BY DEF IInv, Typed
  <2>5. QED
    BY <1>a, <2>1, <2>2, <2>3, <2>4 DEF Capped
<1>12. QED
  BY <1>4, <1>5, <1>6, <1>7, <1>8, <1>9, <1>10, <1>11 DEF Next, Pull, Update, Machine

\* The types of HubBeat: the guard of dispatch_commands stays under its cap, requests stay
\* requests, and a beat leaves nothing of its answer behind.
THEOREM TypesHold == Spec => []TypeOK
<1>1. Init => Capped
  <2> SUFFICES ASSUME Init PROVE Capped
    OBVIOUS
  <2>1. cloud.ver = 1 /\ Len(guard) = 0 /\ GuardMax \in Nat \ {0}
    BY Caps DEF Init
  <2>2. QED
    <3>1. row \in [Requests -> {"open", "taken"}]
      BY DEF Init
    <3>2. adapter = "none" /\ static = FALSE /\ ver = 0 /\ answer.work = <<>>
      BY DEF Init, NoAnswer
    <3>3. ver <= cloud.ver /\ Len(guard) <= GuardMax
      BY <2>1, <3>2
    <3>4. QED
      BY <3>1, <3>2, <3>3 DEF Capped
<1>2. IInv /\ Capped /\ [Next]_vars => Capped'
  BY NextCapped
<1>3. IInv /\ Capped => TypeOK
  <2> SUFFICES ASSUME IInv, Capped PROVE TypeOK
    OBVIOUS
  <2>1. /\ results \in Seq(Requests) /\ answer.work \in Seq(Requests)
        /\ pc \in {"boot", "idle", "pull", "update", "work"}
    BY DEF IInv, Typed
  <2>2. ToSet(results) \cup ToSet(answer.work) \cup owed \subseteq Requests
    BY <2>1 DEF ToSet, IInv, NoResultLost
  <2>3. acts \in [ToSet(Commands) -> 0 .. 2]
    <3>1. acts \in [ToSet(Commands) -> Nat] /\ \A c \in ToSet(Commands) : acts[c] <= 1
      BY DEF IInv, Typed, RunOnce
    <3>2. QED
      BY <3>1
  <2>4. seen <= cloud.nonce
    BY DEF IInv, Typed, Nonces
  <2>5. QED
    BY <2>1, <2>2, <2>3, <2>4 DEF Capped, TypeOK
<1>4. QED
  BY <1>1, <1>2, <1>3, Invariance, PTL DEF Spec

-------------------------------------------------------------------------------
(* Billing records: what PrintJobs does keeps what Billing promises.  PrintJobs and
   HubBeat both call a variable pc and one seen; nothing below is about HubBeat's. *)

CONSTANTS Names, Weather, MaxDeaths, MaxRebuilds
VARIABLES printer, up, attached, data, stamp, jobs, deaths, rebuilds
USE BillingAssumption

Bambu == INSTANCE PrintJobs

Telemetry == {"IDLE"} \cup Bambu!StillActive \cup Bambu!Terminal
BambuNames == Names \cup {Bambu!NoName}
BambuPrints == [name : Names, id : BOOLEAN, fate : {"active", "IDLE"} \cup Bambu!Terminal]
BambuJobs == [key : Keys \cup {Bambu!NoJob.key}, name : BambuNames, opened : Nat]
BambuTrackers == [active : BambuJobs, pending : Seq(Records), last : Telemetry \cup {""}]
Frames == [state : Telemetry, name : BambuNames, task : Nat]

\* How a print that ended as fate is billed.
StatusOf(fate) == IF fate \in Bambu!Terminal THEN Bambu!TerminalStatus(fate) ELSE "cancelled"

(* The things a frame f of print p does to a tracker t, which becomes a. *)

BambuJob(f, p, now) == [key |-> Bambu!KeyOf(f, now), name |-> f.name, opened |-> p]

\* The job, if any, goes on as it is.
Unmoved(t, f, a) ==
  /\ a.pending = t.pending /\ a.active = t.active
  /\ IF t.active = Bambu!NoJob THEN f.state # Bambu!Active ELSE f.state \in Bambu!StillActive

\* It goes on and takes over what it was not told before.
Refreshed(t, f, a) ==
  /\ a.pending = t.pending /\ a.active # Bambu!NoJob
  /\ t.active # Bambu!NoJob /\ f.state = Bambu!Active /\ ~Bambu!Renamed(t, f)
  /\ a.active.opened = t.active.opened
  /\ a.active.name = IF t.active.name = Bambu!NoName THEN f.name ELSE t.active.name
  /\ \/ a.active.key = t.active.key
     \/ t.active.key[1] # "task" /\ f.task # 0 /\ a.active.key = Bambu!TaskKey(f)

Began(t, f, p, now, a) ==
  /\ a.pending = t.pending
  /\ t.active = Bambu!NoJob /\ f.state = Bambu!Active /\ a.active = BambuJob(f, p, now)

\* A record of the job of t, closed on print p.
ClosedOn(t, p, r) == r.key = t.active.key /\ r.opened = t.active.opened /\ r.ended = p

Ended(t, f, p, a, r) ==
  /\ t.active # Bambu!NoJob /\ f.state \notin Bambu!StillActive /\ a.active = Bambu!NoJob
  /\ ClosedOn(t, p, r) /\ r.status = StatusOf(f.state)

Replaced(t, f, p, now, a, r) ==
  /\ t.active # Bambu!NoJob /\ f.state = Bambu!Active /\ Bambu!Renamed(t, f)
  /\ a.active = BambuJob(f, p, now)
  /\ ClosedOn(t, p, r) /\ r.status = "cancelled"

Recovered(t, f, p, a, r) ==
  /\ t.active = Bambu!NoJob /\ f.state \in Bambu!Terminal /\ a.active = Bambu!NoJob
  /\ f.task # 0 /\ r.key = Bambu!TaskKey(f) /\ r.opened = p /\ r.ended = p
  /\ r.status = StatusOf(f.state)

\* A record r was buffered.
Buffers(t, a, r) ==
  /\ Len(a.pending) <= MaxPending
  /\ Last(a.pending) = r /\ r \in ToSet(a.pending)
  /\ ToSet(a.pending) \subseteq ToSet(t.pending) \cup {r}

BambuEffect(t, f, p, now, a) ==
  \/ Unmoved(t, f, a) \/ Refreshed(t, f, a) \/ Began(t, f, p, now, a)
  \/ \E r \in Records :
       /\ Buffers(t, a, r)
       /\ Ended(t, f, p, a, r) \/ Replaced(t, f, p, now, a, r) \/ Recovered(t, f, p, a, r)

\* Only a print is under way or over, and only a print opens a job.
BambuBounds(t, f, p) ==
  /\ p \in Nat /\ f.task \in {0, p}
  /\ f.state # "IDLE" \/ f.task # 0 \/ t.active # Bambu!NoJob => p \in 1 .. MaxPrints
  /\ t.active # Bambu!NoJob => t.active.key \in Keys /\ t.active.opened \in 1 .. MaxPrints

\* A record is buffered at the end, under the cap, at the cost of older ones only.
LEMMA BambuBufferFacts ==
  ASSUME NEW t \in BambuTrackers, NEW r \in Records
  PROVE  /\ Bambu!Buffer(t, r) \in BambuTrackers
         /\ Bambu!Buffer(t, r).active = t.active
         /\ Buffers(t, Bambu!Buffer(t, r), r)
<1> DEFINE grown == Append(t.pending, r)
           excess == Len(grown) - MaxPending
           kept == IF excess > 0 THEN SubSeq(grown, excess + 1, Len(grown)) ELSE grown
<1>0. t.pending \in Seq(Records)
  BY DEF BambuTrackers
<1>1. grown \in Seq(Records) /\ Len(grown) = Len(t.pending) + 1 /\ grown[Len(grown)] = r
  BY <1>0
<1>2. ToSet(grown) = ToSet(t.pending) \cup {r}
  BY <1>0, AppendSet
<1> HIDE DEF grown
<1>3. /\ kept \in Seq(Records) /\ Len(kept) <= MaxPending /\ Len(kept) > 0
      /\ kept[Len(kept)] = r /\ ToSet(kept) \subseteq ToSet(grown)
  <2>1. CASE excess > 0
    <3>1. excess + 1 \in 1 .. Len(grown) + 1 /\ Len(grown) \in (excess + 1) - 1 .. Len(grown)
      BY <1>1, <2>1
    <3>2. kept = SubSeq(grown, excess + 1, Len(grown))
      BY <2>1
    <3>3. /\ kept \in Seq(Records) /\ Len(kept) = Len(grown) - (excess + 1) + 1
          /\ ToSet(kept) \subseteq ToSet(grown)
      <4> HIDE DEF kept, excess
      <4>1. QED
        BY <1>1, <3>1, <3>2, SubSeqSet
    <3> HIDE DEF kept
    <3>4. kept[MaxPending] = grown[excess + MaxPending]
      BY <1>1, <2>1, <3>2
    <3>5. QED
      BY <1>1, <3>3, <3>4
  <2>2. CASE ~(excess > 0)
    <3>1. kept = grown
      BY <2>2
    <3>2. Len(grown) <= MaxPending /\ Len(grown) > 0
      BY <1>1, <2>2
    <3> HIDE DEF kept
    <3>3. QED
      BY <1>1, <3>1, <3>2
  <2>3. QED
    BY <2>1, <2>2
<1>4. Bambu!Buffer(t, r) = [t EXCEPT !.pending = kept]
  BY DEF Bambu!Buffer, grown
<1> HIDE DEF kept
<1>5. /\ Bambu!Buffer(t, r) \in BambuTrackers /\ Bambu!Buffer(t, r).active = t.active
      /\ Bambu!Buffer(t, r).pending = kept
  BY <1>3, <1>4 DEF BambuTrackers
<1>6. r \in ToSet(kept) /\ Last(kept) = r
  BY <1>3 DEF ToSet, Last
<1>7. QED
  BY <1>2, <1>3, <1>5, <1>6 DEF Buffers

\* NoJob is a job with a key of its own.
LEMMA BambuNoJob == Bambu!NoJob \in BambuJobs /\ Bambu!NoJob.key \notin Keys
BY DEF Bambu!NoJob, BambuJobs, BambuNames, Keys

\* _close buffers the record of the open job and opens none.
LEMMA BambuCloseFacts ==
  ASSUME NEW t \in BambuTrackers, NEW f \in Frames, NEW p, BambuBounds(t, f, p), t.active # Bambu!NoJob,
         NEW o \in {"done", "failed", "cancelled"}
  PROVE  /\ Bambu!Close(t, o, p) \in BambuTrackers /\ Bambu!Close(t, o, p).active = Bambu!NoJob
         /\ \E r \in Records :
              Buffers(t, Bambu!Close(t, o, p), r) /\ ClosedOn(t, p, r) /\ r.status = o
<1> DEFINE r == [key |-> t.active.key, status |-> o, opened |-> t.active.opened, ended |-> p]
<1>1. r \in Records /\ ClosedOn(t, p, r) /\ r.status = o
  BY DEF Records, ClosedOn, BambuBounds
<1> HIDE DEF r
<1>2. Bambu!Close(t, o, p) = [Bambu!Buffer(t, r) EXCEPT !.active = Bambu!NoJob]
  BY DEF Bambu!Close, r
<1>3. Bambu!Buffer(t, r) \in BambuTrackers /\ Buffers(t, Bambu!Buffer(t, r), r)
  BY <1>1, BambuBufferFacts
<1>4. /\ Bambu!Close(t, o, p) \in BambuTrackers /\ Bambu!Close(t, o, p).active = Bambu!NoJob
      /\ Bambu!Close(t, o, p).pending = Bambu!Buffer(t, r).pending
  BY <1>2, <1>3, BambuNoJob DEF BambuTrackers
<1>5. Buffers(t, Bambu!Close(t, o, p), r)
  BY <1>3, <1>4 DEF Buffers
<1>6. QED
  BY <1>1, <1>4, <1>5

\* _open opens the job of the frame.
LEMMA BambuOpenFacts ==
  ASSUME NEW t \in BambuTrackers, NEW f \in Frames, NEW p \in 1 .. MaxPrints, f.task \in {0, p}, NEW now \in Nat
  PROVE  /\ Bambu!Open(t, f, p, now) \in BambuTrackers /\ Bambu!Open(t, f, p, now).active = BambuJob(f, p, now)
         /\ Bambu!Open(t, f, p, now).pending = t.pending /\ BambuJob(f, p, now).key \in Keys
<1>1. Bambu!KeyOf(f, now) \in Keys
  BY DEF Bambu!KeyOf, Bambu!TaskKey, Keys
<1>2. BambuJob(f, p, now) \in BambuJobs /\ BambuJob(f, p, now).key \in Keys
  BY <1>1 DEF BambuJob, BambuJobs, Frames
<1>3. Bambu!Open(t, f, p, now) = [t EXCEPT !.active = BambuJob(f, p, now)]
  BY DEF Bambu!Open, BambuJob
<1>4. QED
  BY <1>2, <1>3 DEF BambuTrackers

\* What a job takes over leaves it open.
LEMMA BambuRefreshFacts ==
  ASSUME NEW t \in BambuTrackers, NEW f \in Frames, NEW p, BambuBounds(t, f, p), t.active # Bambu!NoJob,
         f.state = Bambu!Active, ~Bambu!Renamed(t, f)
  PROVE  Bambu!Refresh(t, f) \in BambuTrackers /\ Refreshed(t, f, Bambu!Refresh(t, f))
<1> DEFINE n == IF t.active.name = Bambu!NoName THEN f.name ELSE t.active.name
           k == IF f.task # 0 /\ t.active.key[1] # "task" THEN Bambu!TaskKey(f) ELSE t.active.key
           j == [t.active EXCEPT !.name = n, !.key = k]
<1>1. n \in BambuNames /\ k \in Keys
  <2>1. f.name \in BambuNames /\ t.active \in BambuJobs
    BY DEF Frames, BambuTrackers
  <2>2. k \in Keys
    BY DEF BambuBounds, Keys, Bambu!TaskKey
  <2>3. QED
    BY <2>1, <2>2 DEF BambuJobs
<1>2. k = t.active.key \/ (t.active.key[1] # "task" /\ f.task # 0 /\ k = Bambu!TaskKey(f))
  OBVIOUS
<1> HIDE DEF n, k
<1>3. j \in BambuJobs /\ j.key = k /\ j.name = n /\ j.opened = t.active.opened
  <2>1. t.active \in BambuJobs
    BY DEF BambuTrackers
  <2>2. QED
    BY <1>1, <2>1 DEF BambuJobs
<1>4. Bambu!Refresh(t, f) = [t EXCEPT !.active = j]
  BY DEF Bambu!Refresh, BambuTrackers, BambuJobs, n, k
<1> HIDE DEF j
<1>5. /\ Bambu!Refresh(t, f) \in BambuTrackers /\ Bambu!Refresh(t, f).active = j
      /\ Bambu!Refresh(t, f).pending = t.pending
  BY <1>3, <1>4 DEF BambuTrackers
<1>6. j # Bambu!NoJob
  BY <1>1, <1>3, BambuNoJob
<1>7. QED
  BY <1>2, <1>3, <1>5, <1>6 DEF Refreshed, n

\* observe does one of the things above.
LEMMA BambuObserveFacts ==
  ASSUME NEW t \in BambuTrackers, NEW f \in Frames, NEW p, BambuBounds(t, f, p), NEW now \in Nat
  PROVE  /\ Bambu!Observe(t, f, p, now) \in BambuTrackers
         /\ BambuEffect(t, f, p, now, Bambu!Observe(t, f, p, now))
<1> USE DEF Bambu!StillActive, Bambu!Terminal, Bambu!Active
<1>0. f.state \in Telemetry /\ f.task \in {0, p}
  BY DEF Frames, BambuBounds
<1> DEFINE b == IF t.active = Bambu!NoJob THEN Bambu!ObserveIdle(t, f, p, now) ELSE Bambu!ObserveActive(t, f, p, now)
<1>1. b \in BambuTrackers /\ BambuEffect(t, f, p, now, b)
  <2>1. CASE t.active = Bambu!NoJob
    <3>1. b = Bambu!ObserveIdle(t, f, p, now)
      BY <2>1
    <3> HIDE DEF b
    <3>2. CASE f.state = Bambu!Active
      <4>1. b = Bambu!Open(t, f, p, now)
        BY <3>1, <3>2 DEF Bambu!ObserveIdle
      <4>2. p \in 1 .. MaxPrints
        BY <3>2 DEF BambuBounds
      <4>3. QED
        BY <1>0, <2>1, <3>2, <4>1, <4>2, BambuOpenFacts DEF BambuEffect, Began
    <3>3. CASE t.last = "" /\ f.state \in Bambu!Terminal /\ f.task # 0
      <4> DEFINE r == [key |-> Bambu!TaskKey(f), status |-> Bambu!TerminalStatus(f.state), opened |-> p, ended |-> p]
      <4>1. b = Bambu!Buffer(t, r)
        BY <3>1, <3>3 DEF Bambu!ObserveIdle, Bambu!EmitRecovered
      <4>2. p \in 1 .. MaxPrints /\ f.task = p
        BY <1>0, <3>3 DEF BambuBounds
      <4>3. r \in Records
        BY <4>2 DEF Records, Keys, Bambu!TaskKey, Bambu!TerminalStatus
      <4>4. r.key = Bambu!TaskKey(f) /\ r.opened = p /\ r.ended = p /\ r.status = StatusOf(f.state)
        BY <3>3 DEF StatusOf
      <4> HIDE DEF r
      <4>5. b \in BambuTrackers /\ b.active = t.active /\ Buffers(t, b, r)
        BY <4>1, <4>3, BambuBufferFacts
      <4>6. Recovered(t, f, p, b, r)
        BY <2>1, <3>3, <4>4, <4>5 DEF Recovered
      <4>7. QED
        BY <4>3, <4>5, <4>6 DEF BambuEffect
    <3>4. CASE f.state # Bambu!Active /\ ~(t.last = "" /\ f.state \in Bambu!Terminal /\ f.task # 0)
      <4>1. b = t
        BY <3>1, <3>4 DEF Bambu!ObserveIdle, Bambu!EmitRecovered
      <4>2. QED
        BY <2>1, <3>4, <4>1 DEF BambuEffect, Unmoved
    <3>5. QED
      BY <3>2, <3>3, <3>4
  <2>2. CASE t.active # Bambu!NoJob
    <3>1. b = Bambu!ObserveActive(t, f, p, now)
      BY <2>2
    <3>2. p \in 1 .. MaxPrints
      BY <2>2 DEF BambuBounds
    <3> HIDE DEF b
    <3>3. CASE f.state \notin Bambu!StillActive
      <4>1. b = Bambu!Close(t, StatusOf(f.state), p)
        BY <1>0, <3>1, <3>3 DEF Bambu!ObserveActive, StatusOf, Telemetry
      <4>2. StatusOf(f.state) \in {"done", "failed", "cancelled"}
        BY DEF StatusOf, Bambu!TerminalStatus
      <4>3. b \in BambuTrackers /\ b.active = Bambu!NoJob
        BY <2>2, <4>1, <4>2, BambuCloseFacts
      <4>4. PICK r \in Records : Buffers(t, b, r) /\ ClosedOn(t, p, r) /\ r.status = StatusOf(f.state)
        BY <2>2, <4>1, <4>2, BambuCloseFacts
      <4>5. Ended(t, f, p, b, r)
        BY <2>2, <3>3, <4>3, <4>4 DEF Ended
      <4>6. QED
        BY <4>3, <4>4, <4>5 DEF BambuEffect
    <3>4. CASE f.state = Bambu!Active /\ Bambu!Renamed(t, f)
      <4> DEFINE c == Bambu!Close(t, "cancelled", p)
      <4>1. b = Bambu!Open(c, f, p, now)
        BY <3>1, <3>4 DEF Bambu!ObserveActive
      <4>2. c \in BambuTrackers
        BY <2>2, BambuCloseFacts
      <4>3. PICK r \in Records : Buffers(t, c, r) /\ ClosedOn(t, p, r) /\ r.status = "cancelled"
        BY <2>2, BambuCloseFacts
      <4> HIDE DEF c
      <4>4. b \in BambuTrackers /\ b.active = BambuJob(f, p, now) /\ b.pending = c.pending
        BY <1>0, <3>2, <4>1, <4>2, BambuOpenFacts
      <4>5. Buffers(t, b, r) /\ Replaced(t, f, p, now, b, r)
        BY <2>2, <3>4, <4>3, <4>4 DEF Buffers, Replaced
      <4>6. QED
        BY <4>3, <4>4, <4>5 DEF BambuEffect
    <3>5. CASE f.state = Bambu!Active /\ ~Bambu!Renamed(t, f)
      <4>1. b = Bambu!Refresh(t, f)
        BY <3>1, <3>5 DEF Bambu!ObserveActive
      <4>2. QED
        BY <2>2, <3>5, <4>1, BambuRefreshFacts DEF BambuEffect
    <3>6. CASE f.state \in Bambu!StillActive /\ f.state # Bambu!Active
      <4>1. b = t
        BY <3>1, <3>6 DEF Bambu!ObserveActive
      <4>2. QED
        BY <2>2, <3>6, <4>1 DEF BambuEffect, Unmoved
    <3>7. QED
      BY <3>3, <3>4, <3>5, <3>6
  <2>3. QED
    BY <2>1, <2>2
<1> DEFINE a == Bambu!Observe(t, f, p, now)
<1>2. a = [b EXCEPT !.last = f.state]
  BY DEF Bambu!Observe
<1> HIDE DEF b, a
<1>3. a \in BambuTrackers /\ a.active = b.active /\ a.pending = b.pending
  BY <1>0, <1>1, <1>2 DEF BambuTrackers
<1>4. BambuEffect(t, f, p, now, a)
  <2>1. CASE Unmoved(t, f, b) \/ Refreshed(t, f, b) \/ Began(t, f, p, now, b)
    BY <1>3, <2>1 DEF BambuEffect, Unmoved, Refreshed, Began
  <2>2. CASE \E r \in Records :
               /\ Buffers(t, b, r)
               /\ Ended(t, f, p, b, r) \/ Replaced(t, f, p, now, b, r) \/ Recovered(t, f, p, b, r)
    <3>1. PICK r \in Records :
               /\ Buffers(t, b, r)
               /\ Ended(t, f, p, b, r) \/ Replaced(t, f, p, now, b, r) \/ Recovered(t, f, p, b, r)
      BY <2>2
    <3>2. /\ Buffers(t, a, r)
          /\ Ended(t, f, p, a, r) \/ Replaced(t, f, p, now, a, r) \/ Recovered(t, f, p, a, r)
      BY <1>3, <3>1 DEF Buffers, Ended, Replaced, Recovered
    <3>3. QED
      BY <3>2 DEF BambuEffect
  <2>3. QED
    BY <1>1, <2>1, <2>2 DEF BambuEffect
<1>5. QED
  BY <1>3, <1>4 DEF a

(* The inductive invariant. *)

BambuTyped ==
  /\ printer \in [state : Telemetry, print : Nat]
  /\ prints \in Seq(BambuPrints) /\ Len(prints) <= MaxPrints
  /\ tracker \in BambuTrackers /\ Len(tracker.pending) <= MaxPending /\ stamp \in Nat
  /\ orphans \in Seq(Records) /\ jobs \in Seq(Records) /\ received \in Seq(Records)
  /\ emitted \subseteq Records

\* The newest print is the one the printer tells of, and over when the printer says so.
BambuSane ==
  /\ printer.print = Len(prints)
  /\ printer.print = 0 => printer.state = "IDLE"
  /\ printer.print > 0 =>
       prints[printer.print].fate = IF printer.state \in Bambu!StillActive THEN "active" ELSE printer.state

\* What an adapter saw end has ended.
EndsSeen == \A p \in ends : p # 0 => p \in 1 .. Len(prints) /\ prints[p].fate # "active"

\* Every record anywhere is one that a tracker buffered.
BambuHeld ==
  /\ lost \subseteq emitted
  /\ ToSet(received) \cup ToSet(orphans) \cup ToSet(jobs) \cup ToSet(tracker.pending) \subseteq emitted

\* The key of a job opened on print o, when print e is on the printer: o's own id, or,
\* if it has none, a fingerprint of the past or the id of a later print.
KeyFits(k, o, e) ==
  IF prints[o].id THEN k = <<"task", o>>
  ELSE (\E n \in Nat : n < stamp /\ k = <<"fp", n>>) \/ (\E t \in o + 1 .. e : k = <<"task", t>>)

\* A record tells how the print it was closed on ended, or that this print took the
\* place of the one it was opened on.
EndFits(r) ==
  \/ prints[r.ended].fate # "active" /\ r.status = StatusOf(prints[r.ended].fate)
  \/ r.status = "cancelled" /\ r.opened < r.ended /\ r.key # <<"task", r.ended>>

\* A record that spans several prints was closed late because the end of the first one
\* was not seen.
Sound(r) ==
  /\ r.opened <= r.ended /\ r.ended <= printer.print
  /\ KeyFits(r.key, r.opened, r.ended) /\ EndFits(r)
  /\ r.opened < r.ended => r.opened \notin ends

\* Records of one print have one key; records of one key tell the same.
Agree(r, s) ==
  /\ r.opened = s.opened => r.key = s.key
  /\ r.key = s.key => r.status = s.status /\ (r.key[1] = "fp" => r = s)

\* The open job is of a print whose end was not seen and that nobody has reported, under
\* a key nobody has used; it is not to be closed by its own print's name.
OpenBambuJob ==
  tracker.active # Bambu!NoJob =>
    LET j == tracker.active
    IN  /\ 0 < j.opened /\ j.opened <= printer.print /\ j.opened \notin ends
        /\ KeyFits(j.key, j.opened, printer.print)
        /\ \A r \in emitted : r.opened # j.opened /\ r.key # j.key
        /\ j.opened = printer.print \/ j.key = <<"task", printer.print>> =>
             prints[printer.print].name \in {Bambu!NoName, j.name} \/ j.name = Bambu!NoName

BambuInv ==
  /\ BambuTyped /\ BambuSane /\ EndsSeen /\ BambuHeld /\ OpenBambuJob
  /\ \A r \in emitted : Sound(r)
  /\ \A r, s \in emitted : Agree(r, s)

\* The invariant implies what the cloud is billed.
LEMMA BambuInvImplies == BambuInv => BilledOnce /\ NoSilentMerge
<1> SUFFICES ASSUME BambuInv PROVE BilledOnce /\ NoSilentMerge
  OBVIOUS
<1>1. \A r \in emitted : /\ r \in Records /\ Sound(r)
                         /\ r.opened \in 1 .. Len(prints) /\ r.ended \in 1 .. Len(prints)
  BY DEF BambuInv, BambuTyped, BambuSane, Sound, Records
<1>2. Rows \subseteq emitted
  BY DEF Rows, BambuInv, BambuHeld, BambuTyped, ToSet
<1>3. ASSUME NEW r \in Rows, r.status = "done", r.opened = r.ended
      PROVE  prints[r.opened].fate = "FINISH"
  <2>1. r.status = StatusOf(prints[r.ended].fate)
    BY <1>1, <1>2, <1>3 DEF Sound, EndFits
  <2>2. QED
    BY <1>3, <2>1 DEF StatusOf, Bambu!TerminalStatus, Bambu!Terminal
<1>4. BilledOnce
  <2>1. \A r, s \in Rows : r.opened = s.opened => r.key = s.key
    BY <1>2 DEF BambuInv, Agree
  <2>2. QED
    BY <1>3, <2>1 DEF BilledOnce
<1>5. ASSUME NEW r \in emitted, r.opened # r.ended PROVE r.opened \notin ends
  BY <1>1, <1>5 DEF Sound
<1>6. ASSUME NEW r \in emitted, NEW s \in emitted, r.key = s.key, r.opened < s.opened
      PROVE  r.opened # r.ended
  <2>1. \A n : r.key # <<"fp", n>>
    <3>1. r # s
      BY <1>1, <1>6
    <3>2. r.key[1] # "fp"
      BY <1>6, <3>1 DEF BambuInv, Agree
    <3>3. QED
      BY <3>2
  <2>2. PICK t \in Nat : r.key = <<"task", t>> /\ t >= s.opened
    BY <1>1, <1>6, <2>1 DEF Sound, KeyFits
  <2>3. r.key # <<"task", r.opened>>
    BY <1>1, <1>6, <2>2
  <2>4. QED
    BY <1>1, <2>1, <2>3 DEF Sound, KeyFits
<1>7. QED
  BY <1>4, <1>5, <1>6 DEF NoSilentMerge

\* A new tracker has nothing.
LEMMA BambuNewTracker ==
  /\ Bambu!NewTracker \in BambuTrackers /\ Bambu!NewTracker.active = Bambu!NoJob
  /\ Bambu!NewTracker.pending = <<>>
<1>1. <<>> \in Seq(Records) /\ "" \in Telemetry \cup {""}
  OBVIOUS
<1>2. Bambu!NoJob \in BambuJobs
  BY BambuNoJob
<1>3. QED
  BY <1>1, <1>2 DEF Bambu!NewTracker, BambuTrackers

\* The initial states.
LEMMA InitBambu == Bambu!Init => BambuInv
<1> SUFFICES ASSUME Bambu!Init PROVE BambuInv
  OBVIOUS
<1> USE DEF Bambu!Init
<1>1. Bambu!NewTracker \in BambuTrackers /\ Bambu!NewTracker.active = Bambu!NoJob /\ Bambu!NewTracker.pending = <<>>
  BY BambuNewTracker
<1>2. Len(prints) = 0 /\ ToSet(<<>>) = {} /\ Len(<<>>) = 0
  BY DEF ToSet
<1>3. BambuTyped
  BY <1>1, <1>2 DEF BambuTyped, Telemetry
<1>4. QED
  BY <1>1, <1>2, <1>3 DEF BambuInv, BambuSane, EndsSeen, BambuHeld, OpenBambuJob

(* The printer. *)

\* The printer may start prints and end one, and nobody else does.
PrinterMoves ==
  /\ prints' \in Seq(BambuPrints) /\ Len(prints') <= MaxPrints /\ Len(prints') \in {Len(prints), Len(prints) + 1}
  /\ \A p \in 1 .. Len(prints) :
       /\ prints'[p].name = prints[p].name /\ prints'[p].id = prints[p].id
       /\ prints[p].fate # "active" => prints'[p].fate = prints[p].fate
  /\ printer' \in [state : Telemetry, print : Nat] /\ BambuSane'
  /\ UNCHANGED <<tracker, stamp, orphans, jobs, received, emitted, lost, ends>>

LEMMA PrinterMovesKeeps ==
  ASSUME BambuInv, PrinterMoves
  PROVE  BambuInv'
<1> USE DEF PrinterMoves
<1>0. /\ printer.print = Len(prints) /\ printer'.print = Len(prints') /\ Len(prints) \in Nat
      /\ emitted \subseteq Records
  BY DEF BambuInv, BambuTyped, BambuSane
<1>1. BambuTyped' /\ BambuSane' /\ BambuHeld'
  BY DEF BambuInv, BambuTyped, BambuHeld
<1>2. EndsSeen'
  BY <1>0 DEF BambuInv, EndsSeen
<1>3. ASSUME NEW k, NEW o \in 1 .. Len(prints), NEW e \in Nat, NEW d \in Nat, e <= d, KeyFits(k, o, e)
      PROVE  KeyFits(k, o, d)'
  BY <1>3 DEF KeyFits
<1>4. ASSUME NEW r \in emitted PROVE Sound(r)'
  <2>1. Sound(r) /\ r.opened \in 1 .. Len(prints) /\ r.ended \in 1 .. Len(prints)
    BY <1>0 DEF BambuInv, Sound, Records
  <2>2. KeyFits(r.key, r.opened, r.ended)'
    BY <1>3, <2>1 DEF Sound
  <2>3. EndFits(r)'
    BY <2>1 DEF Sound, EndFits
  <2>4. QED
    BY <1>0, <2>1, <2>2, <2>3 DEF Sound
<1>5. OpenBambuJob'
  <2> SUFFICES ASSUME tracker.active # Bambu!NoJob PROVE OpenBambuJob'
    BY DEF OpenBambuJob
  <2>1. PICK j \in BambuJobs : j = tracker.active
    BY DEF BambuInv, BambuTyped, BambuTrackers
  <2>a. PICK n \in Nat : n = Len(prints)
    BY <1>0
  <2>b. PICK m \in {n, n + 1} : m = Len(prints')
    BY <2>a
  <2>2. /\ j.opened \in 1 .. n /\ j.opened \notin ends /\ KeyFits(j.key, j.opened, n)
        /\ \A r \in emitted : r.opened # j.opened /\ r.key # j.key
        /\ j.opened = n \/ j.key = <<"task", n>> =>
             prints[n].name \in {Bambu!NoName, j.name} \/ j.name = Bambu!NoName
    BY <1>0, <2>1, <2>a DEF BambuInv, OpenBambuJob, BambuJobs
  <2>3. KeyFits(j.key, j.opened, m)'
    BY <1>3, <2>2, <2>a, <2>b
  <2>4. j.opened = m \/ j.key = <<"task", m>> => prints'[m].name \in {Bambu!NoName, j.name} \/ j.name = Bambu!NoName
    <3>1. CASE m = n
      BY <2>2, <2>a, <3>1
    <3>2. CASE m = n + 1
      BY <2>2, <3>2 DEF KeyFits
    <3>3. QED
      BY <3>1, <3>2
  <2>5. QED
    BY <1>0, <2>1, <2>2, <2>3, <2>4, <2>b DEF OpenBambuJob
<1>6. QED
  BY <1>1, <1>2, <1>4, <1>5 DEF BambuInv, Agree

\* Starting, going on and ending are such moves.
LEMMA BambuPrinterStep ==
  ASSUME BambuInv, Bambu!Printer
  PROVE  BambuInv'
<1> USE DEF Bambu!StillActive, Bambu!Terminal, Bambu!Active, Telemetry
<1>0. /\ prints \in Seq(BambuPrints) /\ Len(prints) <= MaxPrints /\ Len(prints) \in Nat
      /\ printer \in [state : Telemetry, print : Nat] /\ BambuSane
  BY DEF BambuInv, BambuTyped
<1>1. ASSUME NEW n \in Names, NEW hasId \in BOOLEAN, Bambu!StartPrint(n, hasId) PROVE PrinterMoves
  <2> DEFINE x == [name |-> n, id |-> hasId, fate |-> "active"]
  <2>1. /\ prints' = Append(prints, x) /\ printer' = [state |-> "PREPARE", print |-> Len(prints) + 1]
        /\ Len(prints) < MaxPrints
        /\ UNCHANGED <<tracker, stamp, orphans, jobs, received, emitted, lost, ends>>
    BY <1>1 DEF Bambu!StartPrint, Bambu!beatVars, Bambu!histVars
  <2>2. x \in BambuPrints /\ x.fate = "active"
    BY DEF BambuPrints
  <2> HIDE DEF x
  <2>3. /\ prints' \in Seq(BambuPrints) /\ Len(prints') = Len(prints) + 1 /\ prints'[Len(prints) + 1] = x
        /\ \A p \in 1 .. Len(prints) : prints'[p] = prints[p]
    BY <1>0, <2>1, <2>2
  <2>4. BambuSane'
    BY <1>0, <2>1, <2>2, <2>3 DEF BambuSane
  <2>5. QED
    BY <1>0, <2>1, <2>3, <2>4 DEF PrinterMoves
<1>2. ASSUME NEW s, Bambu!Proceed(s) PROVE PrinterMoves
  <2>1. /\ printer' = [printer EXCEPT !.state = s] /\ printer.state \in Bambu!StillActive /\ s \in Bambu!StillActive
        /\ UNCHANGED <<prints, tracker, stamp, orphans, jobs, received, emitted, lost, ends>>
    BY <1>2 DEF Bambu!Proceed, Bambu!beatVars, Bambu!histVars
  <2>2. printer'.state = s /\ printer'.print = printer.print /\ printer' \in [state : Telemetry, print : Nat]
    BY <1>0, <2>1
  <2>3. QED
    BY <1>0, <2>1, <2>2 DEF PrinterMoves, BambuSane
<1>3. ASSUME NEW s \in {"FINISH", "FAILED", "IDLE"}, Bambu!EndPrint(s) PROVE PrinterMoves
  <2>1. /\ printer' = [printer EXCEPT !.state = s] /\ printer.state \in Bambu!StillActive
        /\ prints' = [prints EXCEPT ![printer.print].fate = s]
        /\ UNCHANGED <<tracker, stamp, orphans, jobs, received, emitted, lost, ends>>
    BY <1>3 DEF Bambu!EndPrint, Bambu!beatVars, Bambu!histVars
  <2>2. printer'.state = s /\ printer'.print = printer.print /\ printer' \in [state : Telemetry, print : Nat]
    BY <1>0, <2>1
  <2>3. printer.print \in 1 .. Len(prints) /\ prints[printer.print].fate = "active"
    BY <1>0, <2>1 DEF BambuSane
  <2>4. /\ prints' \in Seq(BambuPrints) /\ Len(prints') = Len(prints) /\ prints'[printer.print].fate = s
        /\ prints'[printer.print].name = prints[printer.print].name /\ prints'[printer.print].id = prints[printer.print].id
        /\ \A p \in 1 .. Len(prints) : p # printer.print => prints'[p] = prints[p]
    <3>1. PICK x : x = [prints[printer.print] EXCEPT !.fate = s]
      OBVIOUS
    <3>2. prints[printer.print] \in BambuPrints
      BY <1>0, <2>3
    <3>3. x \in BambuPrints /\ x.fate = s /\ x.name = prints[printer.print].name /\ x.id = prints[printer.print].id
      BY <3>1, <3>2 DEF BambuPrints
    <3>4. prints' = [prints EXCEPT ![printer.print] = x]
      BY <2>1, <3>1
    <3>5. QED
      BY <1>0, <2>3, <3>3, <3>4
  <2>5. BambuSane'
    BY <1>0, <2>1, <2>2, <2>3, <2>4 DEF BambuSane
  <2>6. QED
    BY <1>0, <2>1, <2>2, <2>3, <2>4, <2>5 DEF PrinterMoves
<1>4. QED
  BY <1>1, <1>2, <1>3, PrinterMovesKeeps DEF Bambu!Printer

(* A frame. *)

\* What the printer tells when name and id come with the state they belong to.
FrameNow == [state |-> printer.state, name |-> Bambu!FileName, task |-> Bambu!TaskId]

\* Such a frame is one the tracker's facts above are about.
LEMMA FrameNowFacts ==
  ASSUME BambuInv
  PROVE  /\ FrameNow \in Frames /\ BambuBounds(tracker, FrameNow, printer.print)
         /\ FrameNow.state = printer.state
         /\ printer.print > 0 => /\ FrameNow.name = prints[printer.print].name
                                 /\ FrameNow.task # 0 <=> prints[printer.print].id
                                 /\ FrameNow.task \in {0, printer.print}
<1>1. /\ printer \in [state : Telemetry, print : Nat] /\ printer.print \in 0 .. MaxPrints
      /\ printer.print # 0 => prints[printer.print] \in BambuPrints
      /\ printer.print = 0 => printer.state = "IDLE"
  BY DEF BambuInv, BambuTyped, BambuSane
<1>a. tracker.active # Bambu!NoJob =>
        tracker.active.opened \in 1 .. printer.print /\ KeyFits(tracker.active.key, tracker.active.opened, printer.print)
  <2>1. tracker.active \in BambuJobs /\ OpenBambuJob
    BY DEF BambuInv, BambuTyped, BambuTrackers
  <2>2. tracker.active.opened \in Nat
    BY <2>1 DEF BambuJobs
  <2>3. QED
    BY <1>1, <2>1, <2>2 DEF OpenBambuJob
<1>2. Bambu!FileName \in BambuNames /\ Bambu!TaskId \in {0, printer.print}
  BY <1>1 DEF Bambu!FileName, Bambu!TaskId, BambuPrints, BambuNames
<1>3. FrameNow \in Frames
  BY <1>1, <1>2 DEF FrameNow, Frames
<1>4. tracker.active # Bambu!NoJob => tracker.active.key \in Keys /\ tracker.active.opened \in 1 .. MaxPrints
  <2> SUFFICES ASSUME tracker.active # Bambu!NoJob
               PROVE  tracker.active.key \in Keys /\ tracker.active.opened \in 1 .. MaxPrints
    OBVIOUS
  <2>1. PICK o \in 1 .. printer.print : o = tracker.active.opened /\ KeyFits(tracker.active.key, o, printer.print)
    BY <1>a
  <2>2. CASE \E n \in Nat : tracker.active.key = <<"fp", n>>
    BY <1>1, <2>1, <2>2 DEF Keys
  <2>3. CASE \E t \in o .. printer.print : tracker.active.key = <<"task", t>>
    BY <1>1, <2>1, <2>3 DEF Keys
  <2>4. QED
    BY <1>1, <2>1, <2>2, <2>3 DEF KeyFits
<1>5. BambuBounds(tracker, FrameNow, printer.print)
  <2>1. tracker.active # Bambu!NoJob => printer.print # 0
    BY <1>1, <1>a
  <2>2. QED
    BY <1>1, <1>2, <1>4, <2>1 DEF FrameNow, BambuBounds
<1>6. printer.print > 0 => /\ FrameNow.name = prints[printer.print].name
                           /\ FrameNow.task # 0 <=> prints[printer.print].id
  BY <1>1 DEF FrameNow, Bambu!FileName, Bambu!TaskId
<1>7. QED
  BY <1>2, <1>3, <1>5, <1>6 DEF FrameNow

\* Of a print that is under way there is no record, nor one under its id or under a
\* fingerprint of this moment.
LEMMA NothingOfItYet ==
  ASSUME BambuInv, printer.state = Bambu!Active, NEW r \in emitted
  PROVE  /\ r.opened < printer.print /\ r.key # <<"task", printer.print>> /\ r.key # <<"fp", stamp>>
         /\ printer.print \notin ends
<1>1. printer.print \in 1 .. Len(prints) /\ prints[printer.print].fate = "active" /\ stamp \in Nat
  BY DEF BambuInv, BambuTyped, BambuSane, Bambu!StillActive, Bambu!Active
<1>2. printer.print \notin ends
  BY <1>1 DEF BambuInv, EndsSeen
<1>3. Sound(r) /\ r.opened \in Nat /\ r.ended \in Nat
  BY DEF BambuInv, BambuTyped, Records
<1>4. r.ended = printer.print => r.opened < r.ended /\ r.key # <<"task", printer.print>>
  BY <1>1, <1>3 DEF Sound, EndFits
<1>5. r.opened < printer.print
  BY <1>1, <1>3, <1>4 DEF Sound
<1>6. r.ended < printer.print => r.key # <<"task", printer.print>>
  BY <1>3, <1>5 DEF Sound, KeyFits
<1>7. r.key # <<"fp", stamp>>
  BY <1>1, <1>3 DEF Sound, KeyFits
<1>8. QED
  BY <1>1, <1>2, <1>3, <1>4, <1>5, <1>6, <1>7 DEF Sound

\* The clock goes on and the end of the present print is seen.
TimeGoesOn ==
  /\ stamp' \in {stamp, stamp + 1}
  /\ ends' = IF printer.state \in Bambu!StillActive THEN ends ELSE ends \cup {printer.print}
  /\ UNCHANGED <<printer, prints>>

\* That changes nothing for the records there are.
LEMMA RecordsStaySound ==
  ASSUME BambuInv, TimeGoesOn
  PROVE  /\ EndsSeen'
         /\ \A r \in emitted : Sound(r)'
         /\ \A k : \A o, e \in Nat : KeyFits(k, o, e) => KeyFits(k, o, e)'
<1> USE DEF TimeGoesOn
<1>1. /\ printer.print = Len(prints) /\ Len(prints) \in Nat /\ stamp \in Nat /\ emitted \subseteq Records
      /\ printer.print > 0 /\ printer.state \notin Bambu!StillActive => prints[printer.print].fate = printer.state
      /\ printer.state \notin Bambu!StillActive => printer.state # "active"
  BY DEF BambuInv, BambuTyped, BambuSane, Telemetry, Bambu!Terminal, Bambu!StillActive, Bambu!Active
<1>2. EndsSeen'
  BY <1>1 DEF BambuInv, EndsSeen
<1>3. \A k : \A o, e \in Nat : KeyFits(k, o, e) => KeyFits(k, o, e)'
  BY <1>1 DEF KeyFits
<1>4. ASSUME NEW r \in emitted PROVE Sound(r)'
  <2>1. Sound(r) /\ r.opened \in Nat /\ r.ended \in Nat
    BY <1>1 DEF BambuInv, Records
  <2>2. KeyFits(r.key, r.opened, r.ended)'
    BY <1>3, <2>1 DEF Sound
  <2>3. EndFits(r)'
    BY <2>1 DEF Sound, EndFits
  <2>4. QED
    BY <1>1, <2>1, <2>2, <2>3 DEF Sound
<1>5. QED
  BY <1>2, <1>3, <1>4

\* A record more.
LEMMA OneRecordMore ==
  ASSUME BambuInv, TimeGoesOn, NEW r \in Records, emitted' = emitted \cup {r},
         Sound(r)', \A s \in emitted : Agree(r, s) /\ Agree(s, r)
  PROVE  (\A s \in emitted : Sound(s))' /\ (\A s, u \in emitted : Agree(s, u))'
<1>1. Agree(r, r)
  BY DEF Agree
<1>2. QED
  BY <1>1, RecordsStaySound DEF BambuInv, Agree

\* The job that a frame opens is open soundly.
LEMMA NewBambuJob ==
  ASSUME BambuInv, TimeGoesOn, printer.state = Bambu!Active, tracker' \in BambuTrackers,
         tracker'.active = BambuJob(FrameNow, printer.print, stamp),
         stamp' = IF tracker'.active.key = <<"fp", stamp>> THEN stamp + 1 ELSE stamp,
         \A r \in emitted' : \/ r \in emitted
                             \/ /\ r.opened # printer.print /\ r.key # <<"task", printer.print>>
                                /\ r.key # <<"fp", stamp>>
  PROVE  OpenBambuJob'
<1>1. printer.print \in 1 .. Len(prints) /\ printer.print > 0 /\ stamp \in Nat
      /\ UNCHANGED <<printer, prints>> /\ ends' = ends
  BY DEF BambuInv, BambuTyped, BambuSane, TimeGoesOn, Bambu!StillActive, Bambu!Active
<1>2. PICK j : j = BambuJob(FrameNow, printer.print, stamp)
  OBVIOUS
<1>3. /\ j.opened = printer.print /\ j.name = prints[printer.print].name
      /\ j.key = IF prints[printer.print].id THEN <<"task", printer.print>> ELSE <<"fp", stamp>>
  BY <1>1, <1>2, FrameNowFacts DEF BambuJob, Bambu!KeyOf, Bambu!TaskKey
<1>4. KeyFits(j.key, j.opened, printer.print)'
  BY <1>1, <1>2, <1>3 DEF KeyFits
<1>5. \A r \in emitted' : r.opened # j.opened /\ r.key # j.key
  <2>1. \A r \in emitted : /\ r.opened # printer.print /\ r.key # <<"task", printer.print>>
                           /\ r.key # <<"fp", stamp>>
    BY <1>1, NothingOfItYet DEF BambuInv, BambuTyped, Records
  <2>2. QED
    BY <1>3, <2>1
<1>6. printer.print \notin ends
  BY <1>1 DEF BambuInv, EndsSeen, BambuSane, Bambu!StillActive
<1>7. QED
  BY <1>1, <1>2, <1>3, <1>4, <1>5, <1>6 DEF OpenBambuJob

\* The operators on lists are the same on both sides of the instance.
LEMMA SameLists ==
  /\ \A s : Bambu!ToSet(s) = ToSet(s) /\ Bambu!Last(s) = Last(s)
  /\ \A s, S : Bambu!Keep(s, S) = Keep(s, S)
BY DEF Bambu!ToSet, ToSet, Bambu!Last, Last, Bambu!Keep, Keep

\* What BambuAdapter._on_message makes of a frame, whichever it is.
Framed(a) ==
  /\ tracker' = a
  /\ stamp' = IF a.active.key = <<"fp", stamp>> THEN stamp + 1 ELSE stamp
  /\ \E new : /\ new = IF a.pending = tracker.pending THEN {} ELSE {Last(a.pending)}
              /\ emitted' = emitted \cup new
              /\ lost' = lost \cup ((ToSet(tracker.pending) \cup new) \ ToSet(a.pending))
  /\ ends' = IF printer.state \in Bambu!StillActive THEN ends ELSE ends \cup {printer.print}
  /\ UNCHANGED <<printer, prints, orphans, pc, jobs, received>>

LEMMA OnMessageFrames ==
  ASSUME BambuInv, Bambu!OnMessage, "late" \notin Weather
  PROVE  /\ \E a \in BambuTrackers : Framed(a) /\ BambuEffect(tracker, FrameNow, printer.print, stamp, a)
         /\ up /\ UNCHANGED up /\ UNCHANGED attached /\ attached
<1>1. Bambu!Merged = {FrameNow}
  BY DEF Bambu!Merged, FrameNow
<1> DEFINE a == Bambu!Observe(tracker, FrameNow, printer.print, stamp)
<1>2. a \in BambuTrackers /\ BambuEffect(tracker, FrameNow, printer.print, stamp, a)
  BY FrameNowFacts, BambuObserveFacts DEF BambuInv, BambuTyped
<1>3. Framed(a)
  <2>1. PICK f \in Bambu!Merged :
          /\ tracker' = Bambu!Observe(tracker, f, printer.print, stamp)
          /\ stamp' = IF Bambu!Observe(tracker, f, printer.print, stamp).active.key = <<"fp", stamp>> THEN stamp + 1 ELSE stamp
          /\ \E new : /\ new = IF Bambu!Observe(tracker, f, printer.print, stamp).pending = tracker.pending
                               THEN {} ELSE {Last(Bambu!Observe(tracker, f, printer.print, stamp).pending)}
                      /\ emitted' = emitted \cup new
                      /\ lost' = lost \cup ((ToSet(tracker.pending) \cup new)
                                           \ ToSet(Bambu!Observe(tracker, f, printer.print, stamp).pending))
    BY SameLists DEF Bambu!OnMessage
  <2>2. f = FrameNow
    BY <1>1
  <2>3. /\ ends' = IF printer.state \in Bambu!StillActive THEN ends ELSE ends \cup {printer.print}
        /\ UNCHANGED <<printer, prints, orphans, pc, jobs, received>>
    BY DEF Bambu!OnMessage, Bambu!printerVars, Bambu!beatVars
  <2>4. QED
    BY <2>1, <2>2, <2>3 DEF Framed
<1>4. QED
  BY <1>2, <1>3 DEF Bambu!OnMessage

\* A buffered record is emitted, and nothing leaves the buffer but for lost.
LEMMA FramedHistory ==
  ASSUME BambuInv, NEW a \in BambuTrackers, Framed(a)
  PROVE  /\ a.pending = tracker.pending => emitted' = emitted
         /\ \A r \in Records : Buffers(tracker, a, r) => emitted' = emitted \cup {r}
         /\ TimeGoesOn
         /\ ToSet(tracker.pending) \cup lost \subseteq ToSet(a.pending) \cup lost'
         /\ emitted' \subseteq emitted \cup ToSet(a.pending) \cup lost'
<1>1. PICK new : /\ new = IF a.pending = tracker.pending THEN {} ELSE {Last(a.pending)}
                 /\ emitted' = emitted \cup new
                 /\ lost' = lost \cup ((ToSet(tracker.pending) \cup new) \ ToSet(a.pending))
  BY DEF Framed
<1>2. TimeGoesOn
  BY DEF Framed, TimeGoesOn
<1>3. ASSUME NEW r \in Records, Buffers(tracker, a, r) PROVE emitted' = emitted \cup {r}
  <2>1. CASE a.pending = tracker.pending
    <3>1. r \in ToSet(tracker.pending)
      BY <1>3, <2>1 DEF Buffers
    <3>2. QED
      BY <1>1, <2>1, <3>1 DEF BambuInv, BambuHeld
  <2>2. CASE a.pending # tracker.pending
    BY <1>1, <1>3, <2>2 DEF Buffers
  <2>3. QED
    BY <2>1, <2>2
<1>4. QED
  BY <1>1, <1>2, <1>3

\* Types and places after a frame.
LEMMA FramedTypes ==
  ASSUME BambuInv, NEW a \in BambuTrackers, Framed(a),
         \/ a.pending = tracker.pending
         \/ \E r \in Records : Buffers(tracker, a, r)
  PROVE  BambuTyped' /\ BambuSane' /\ BambuHeld'
<1>1. UNCHANGED <<printer, prints, orphans, jobs, received>> /\ tracker' = a
  BY DEF Framed
<1>2. stamp' \in Nat
  BY DEF Framed, BambuInv, BambuTyped
<1>3. CASE a.pending = tracker.pending
  <2>1. emitted' = emitted /\ lost' \subseteq emitted
    BY <1>3, FramedHistory DEF Framed, BambuInv, BambuHeld
  <2>2. QED
    BY <1>1, <1>2, <1>3, <2>1 DEF BambuInv, BambuTyped, BambuSane, BambuHeld
<1>4. CASE \E r \in Records : Buffers(tracker, a, r)
  <2>1. PICK r \in Records : Buffers(tracker, a, r)
    BY <1>4
  <2>2. emitted' = emitted \cup {r} /\ Last(a.pending) = r
    BY <2>1, FramedHistory DEF Buffers
  <2>3. /\ lost' \subseteq emitted' /\ ToSet(a.pending) \subseteq emitted'
        /\ Len(a.pending) <= MaxPending /\ emitted' \subseteq Records
    BY <2>1, <2>2 DEF Framed, BambuInv, BambuTyped, BambuHeld, Buffers
  <2>4. QED
    BY <1>1, <1>2, <2>2, <2>3 DEF BambuInv, BambuTyped, BambuSane, BambuHeld
<1>5. QED
  BY <1>3, <1>4

\* A frame keeps the invariant, one kind of effect after the other.
LEMMA OnMessageStep ==
  ASSUME BambuInv, Bambu!OnMessage, "late" \notin Weather
  PROVE  BambuInv'
<1>1. PICK a \in BambuTrackers : Framed(a) /\ BambuEffect(tracker, FrameNow, printer.print, stamp, a)
  BY OnMessageFrames
<1> DEFINE f == FrameNow
           p == printer.print
<1>2. /\ tracker' = a /\ UNCHANGED <<printer, prints>> /\ TimeGoesOn
      /\ stamp' = IF a.active.key = <<"fp", stamp>> THEN stamp + 1 ELSE stamp
      /\ ends' = IF printer.state \in Bambu!StillActive THEN ends ELSE ends \cup {printer.print}
  BY <1>1, FramedHistory DEF Framed
<1>3. BambuTyped' /\ BambuSane' /\ BambuHeld'
  <2>1. \/ a.pending = tracker.pending
        \/ \E r \in Records : Buffers(tracker, a, r)
    BY <1>1 DEF BambuEffect, Unmoved, Refreshed, Began
  <2>2. QED
    BY <1>1, <2>1, FramedTypes
<1>4. /\ EndsSeen' /\ \A r \in emitted : Sound(r)'
      /\ \A k : \A o, e \in Nat : KeyFits(k, o, e) => KeyFits(k, o, e)'
  BY <1>2, RecordsStaySound
<1>5. /\ f.state = printer.state /\ stamp \in Nat /\ p \in Nat /\ emitted \subseteq Records
      /\ p > 0 => /\ f.name = prints[p].name /\ (f.task # 0 <=> prints[p].id) /\ f.task \in {0, p}
                  /\ p \in 1 .. Len(prints) /\ p \in 1 .. MaxPrints
      /\ printer.state # "IDLE" => p > 0
  BY FrameNowFacts DEF BambuInv, BambuTyped, BambuSane
<1>6. tracker.active # Bambu!NoJob =>
        LET j == tracker.active
        IN  /\ j.opened \in 1 .. p /\ j.opened \notin ends /\ j.opened \in Nat
            /\ KeyFits(j.key, j.opened, p)
            /\ \A r \in emitted : r.opened # j.opened /\ r.key # j.key
            /\ j.opened = p \/ j.key = <<"task", p>> =>
                 prints[p].name \in {Bambu!NoName, j.name} \/ j.name = Bambu!NoName
  <2>1. tracker.active.opened \in Nat /\ OpenBambuJob
    BY DEF BambuInv, BambuTyped, BambuTrackers, BambuJobs
  <2>2. QED
    BY <1>5, <2>1 DEF OpenBambuJob
<1>7. CASE Unmoved(tracker, f, a)
  <2>1. emitted' = emitted
    BY <1>1, <1>7, FramedHistory DEF Unmoved
  <2>2. OpenBambuJob'
    <3>1. CASE a.active = Bambu!NoJob
      BY <1>2, <3>1 DEF OpenBambuJob
    <3>2. CASE a.active # Bambu!NoJob
      <4>1. PICK j : j = tracker.active
        OBVIOUS
      <4>2. tracker'.active = j /\ ends' = ends /\ p \in Nat
        BY <1>2, <1>5, <1>7, <3>2, <4>1 DEF Unmoved
      <4>3. KeyFits(j.key, j.opened, p)'
        BY <1>2, <1>4, <1>5, <1>6, <1>7, <3>2, <4>1 DEF Unmoved
      <4>4. QED
        BY <1>2, <1>6, <1>7, <2>1, <3>2, <4>1, <4>2, <4>3 DEF OpenBambuJob, Unmoved
    <3>3. QED
      BY <3>1, <3>2
  <2>3. QED
    BY <1>3, <1>4, <2>1, <2>2 DEF BambuInv, Agree
<1>8. CASE Refreshed(tracker, f, a)
  <2>1. emitted' = emitted
    BY <1>1, <1>8, FramedHistory DEF Refreshed
  <2>2. PICK i, j : i = tracker.active /\ j = a.active
    OBVIOUS
  <2>3. /\ i.opened \in 1 .. p /\ i.opened \notin ends /\ i.opened \in Nat /\ KeyFits(i.key, i.opened, p)
        /\ \A r \in emitted : r.opened # i.opened /\ r.key # i.key
        /\ i.opened = p \/ i.key = <<"task", p>> =>
             prints[p].name \in {Bambu!NoName, i.name} \/ i.name = Bambu!NoName
    BY <1>6, <1>8, <2>2 DEF Refreshed
  <2>4. /\ j.opened = i.opened /\ ends' = ends /\ p > 0 /\ printer.state = Bambu!Active
        /\ j.name = IF i.name = Bambu!NoName THEN prints[p].name ELSE i.name
        /\ prints[p].name = Bambu!NoName \/ i.name = Bambu!NoName \/ prints[p].name = i.name
        /\ j.key = i.key \/ (i.key[1] # "task" /\ prints[p].id /\ j.key = <<"task", p>>)
    BY <1>2, <1>5, <1>8, <2>2, <2>3
       DEF Refreshed, Bambu!Renamed, Bambu!StillActive, Bambu!Active, Bambu!TaskKey
  <2>5. KeyFits(j.key, j.opened, p)
    <3>1. CASE j.key = i.key
      BY <2>3, <2>4, <3>1
    <3>2. CASE i.key[1] # "task" /\ prints[p].id /\ j.key = <<"task", p>>
      <4>1. ~prints[i.opened].id
        BY <2>3, <3>2 DEF KeyFits
      <4>2. i.opened < p
        BY <1>5, <2>3, <3>2, <4>1
      <4>3. QED
        BY <1>5, <2>3, <2>4, <3>2, <4>1, <4>2 DEF KeyFits
    <3>3. QED
      BY <2>4, <3>1, <3>2
  <2>6. \A r \in emitted : r.opened # j.opened /\ r.key # j.key
    BY <2>3, <2>4, NothingOfItYet
  <2>7. KeyFits(j.key, j.opened, p)'
    BY <1>2, <1>4, <1>5, <2>3, <2>4, <2>5
  <2>8. OpenBambuJob'
    BY <1>2, <1>5, <2>1, <2>2, <2>3, <2>4, <2>6, <2>7 DEF OpenBambuJob
  <2>9. QED
    BY <1>3, <1>4, <2>1, <2>8 DEF BambuInv, Agree
<1>9. CASE Began(tracker, f, p, stamp, a)
  <2>1. emitted' = emitted
    BY <1>1, <1>9, FramedHistory DEF Began
  <2>2. OpenBambuJob'
    BY <1>2, <1>5, <1>9, <2>1, NewBambuJob DEF Began
  <2>3. QED
    BY <1>3, <1>4, <2>1, <2>2 DEF BambuInv, Agree
<1>10. ASSUME NEW r \in Records, Buffers(tracker, a, r), Ended(tracker, f, p, a, r)
       PROVE  BambuInv'
  <2>1. emitted' = emitted \cup {r}
    BY <1>1, <1>10, FramedHistory
  <2>2. /\ r.opened \in 1 .. p /\ r.ended = p /\ r.opened \notin ends /\ KeyFits(r.key, r.opened, r.ended)
        /\ \A s \in emitted : s.opened # r.opened /\ s.key # r.key
        /\ r.opened \in Nat /\ r.ended \in Nat /\ p > 0
    BY <1>5, <1>6, <1>10 DEF Ended, ClosedOn
  <2>3. EndFits(r)
    <3>1. printer.state \notin Bambu!StillActive /\ r.status = StatusOf(printer.state)
      BY <1>5, <1>10 DEF Ended
    <3>2. prints[p].fate = printer.state /\ printer.state # "active"
      BY <2>2, <3>1 DEF BambuInv, BambuTyped, BambuSane, Telemetry, Bambu!Terminal, Bambu!StillActive, Bambu!Active
    <3>3. QED
      BY <2>2, <3>1, <3>2 DEF EndFits
  <2>4. Sound(r)'
    <3>1. KeyFits(r.key, r.opened, r.ended)'
      BY <1>4, <2>2
    <3>2. EndFits(r)'
      BY <1>2, <2>3 DEF EndFits
    <3>3. r.opened < r.ended => r.opened \notin ends'
      BY <1>2, <2>2
    <3>4. QED
      BY <1>2, <2>2, <3>1, <3>2, <3>3 DEF Sound
  <2>5. \A s \in emitted : Agree(r, s) /\ Agree(s, r)
    BY <2>2 DEF Agree
  <2>6. (\A s \in emitted : Sound(s))' /\ (\A s, u \in emitted : Agree(s, u))'
    BY <1>2, <2>1, <2>4, <2>5, OneRecordMore
  <2>7. OpenBambuJob'
    BY <1>2, <1>10 DEF OpenBambuJob, Ended
  <2>8. QED
    BY <1>3, <1>4, <2>6, <2>7 DEF BambuInv
<1>11. ASSUME NEW r \in Records, Buffers(tracker, a, r), Replaced(tracker, f, p, stamp, a, r)
       PROVE  BambuInv'
  <2>1. emitted' = emitted \cup {r}
    BY <1>1, <1>11, FramedHistory
  <2>2. /\ r.opened \in 1 .. p /\ r.ended = p /\ r.opened \notin ends /\ KeyFits(r.key, r.opened, r.ended)
        /\ \A s \in emitted : s.opened # r.opened /\ s.key # r.key
        /\ r.opened \in Nat /\ r.ended \in Nat /\ p > 0 /\ r.status = "cancelled"
        /\ printer.state = Bambu!Active /\ a.active = BambuJob(f, p, stamp)
    BY <1>5, <1>6, <1>11 DEF Replaced, ClosedOn
  <2>3. r.opened # p /\ r.key # <<"task", p>>
    BY <1>5, <1>6, <1>11, <2>2 DEF Replaced, ClosedOn, Bambu!Renamed
  <2>4. Sound(r)'
    <3>1. KeyFits(r.key, r.opened, r.ended)'
      BY <1>4, <2>2
    <3>2. EndFits(r)'
      BY <1>2, <2>2, <2>3 DEF EndFits
    <3>3. r.opened < r.ended => r.opened \notin ends'
      BY <1>2, <2>2
    <3>4. QED
      BY <1>2, <2>2, <3>1, <3>2, <3>3 DEF Sound
  <2>5. \A s \in emitted : Agree(r, s) /\ Agree(s, r)
    BY <2>2 DEF Agree
  <2>6. (\A s \in emitted : Sound(s))' /\ (\A s, u \in emitted : Agree(s, u))'
    BY <1>2, <2>1, <2>4, <2>5, OneRecordMore
  <2>7. OpenBambuJob'
    <3>1. r.key # <<"fp", stamp>>
      BY <1>5, <2>2 DEF KeyFits
    <3>2. QED
      BY <1>2, <2>1, <2>2, <2>3, <3>1, NewBambuJob
  <2>8. QED
    BY <1>3, <1>4, <2>6, <2>7 DEF BambuInv
<1>12. ASSUME NEW r \in Records, Buffers(tracker, a, r), Recovered(tracker, f, p, a, r)
       PROVE  BambuInv'
  <2>1. emitted' = emitted \cup {r}
    BY <1>1, <1>12, FramedHistory
  <2>2. /\ r.opened = p /\ r.ended = p /\ p > 0 /\ prints[p].id /\ r.key = <<"task", p>>
        /\ r.status = StatusOf(prints[p].fate) /\ prints[p].fate # "active"
    <3>1. /\ r.opened = p /\ r.ended = p /\ f.task # 0 /\ r.key = <<"task", f.task>>
          /\ printer.state \in Bambu!Terminal /\ r.status = StatusOf(printer.state)
      BY <1>5, <1>12 DEF Recovered, Bambu!TaskKey
    <3>2. p > 0
      BY <1>5, <3>1 DEF Bambu!Terminal
    <3>3. prints[p].fate = printer.state /\ printer.state # "active"
      BY <3>1, <3>2 DEF BambuInv, BambuSane, Bambu!Terminal, Bambu!StillActive, Bambu!Active
    <3>4. QED
      BY <1>5, <3>1, <3>2, <3>3
  <2>3. Sound(r)'
    BY <1>2, <1>5, <2>2 DEF Sound, KeyFits, EndFits
  <2>4. ASSUME NEW s \in emitted PROVE Agree(r, s) /\ Agree(s, r)
    <3>1. Sound(s) /\ s.opened \in Nat /\ s.ended \in Nat
      BY <1>5 DEF BambuInv, Records
    <3>2. s.opened = p => s.key = <<"task", p>>
      BY <2>2, <3>1 DEF Sound, KeyFits
    <3>3. ASSUME s.key = <<"task", p>> PROVE s.status = r.status
      <4>1. p <= s.ended
        BY <1>5, <3>1, <3>3 DEF Sound, KeyFits
      <4>2. s.ended = p
        BY <1>5, <3>1, <4>1 DEF Sound
      <4>3. QED
        BY <2>2, <3>1, <3>3, <4>2 DEF Sound, EndFits
    <3>4. <<"task", p>>[1] # "fp"
      OBVIOUS
    <3>5. QED
      BY <2>2, <3>2, <3>3, <3>4 DEF Agree
  <2>5. (\A s \in emitted : Sound(s))' /\ (\A s, u \in emitted : Agree(s, u))'
    BY <1>2, <2>1, <2>3, <2>4, OneRecordMore
  <2>6. OpenBambuJob'
    BY <1>2, <1>12 DEF OpenBambuJob, Recovered
  <2>7. QED
    BY <1>3, <1>4, <2>5, <2>6 DEF BambuInv
<1>13. QED
  BY <1>1, <1>7, <1>8, <1>9, <1>10, <1>11, <1>12 DEF BambuEffect

(* The heartbeat and the manager. *)

\* Records are moved, and nobody observes anything.
BooksMove ==
  /\ UNCHANGED <<printer, prints, stamp, emitted, ends>>
  /\ tracker' \in BambuTrackers /\ Len(tracker'.pending) <= MaxPending
  /\ tracker'.active \in {tracker.active, Bambu!NoJob}
  /\ orphans' \in Seq(Records) /\ jobs' \in Seq(Records) /\ received' \in Seq(Records)
  /\ ToSet(orphans') \cup ToSet(jobs') \cup ToSet(tracker'.pending) \cup ToSet(received') \cup lost' \subseteq emitted

LEMMA BooksMoveKeeps ==
  ASSUME BambuInv, BooksMove
  PROVE  BambuInv'
<1> USE DEF BooksMove
<1>1. BambuTyped' /\ BambuSane' /\ EndsSeen' /\ BambuHeld'
  BY DEF BambuInv, BambuTyped, BambuSane, EndsSeen, BambuHeld
<1>2. OpenBambuJob'
  BY DEF BambuInv, OpenBambuJob, KeyFits
<1>3. \A r \in emitted : Sound(r)'
  BY DEF BambuInv, Sound, KeyFits, EndFits
<1>4. QED
  BY <1>1, <1>2, <1>3 DEF BambuInv, Agree

\* Where a record may be.
Somewhere == ToSet(received) \cup ToSet(orphans) \cup ToSet(tracker.pending) \cup lost

\* A list of records filtered by what is acknowledged.
LEMMA BambuUnackedFacts ==
  ASSUME NEW b \in Seq(Records)
  PROVE  /\ Bambu!Unacked(b) \in Seq(Records) /\ Len(Bambu!Unacked(b)) <= Len(b)
         /\ ToSet(Bambu!Unacked(b)) \subseteq ToSet(b)
         /\ \A r \in ToSet(b) : r \in ToSet(Bambu!Unacked(b)) \/ \E j \in ToSet(jobs) : j.key = r.key
<1> DEFINE keep == {r \in ToSet(b) : r.key \notin {j.key : j \in ToSet(jobs)}}
<1>1. Bambu!Unacked(b) = Keep(b, keep)
  BY SameLists DEF Bambu!Unacked
<1>2. \A r \in ToSet(b) : r \in keep \/ \E j \in ToSet(jobs) : j.key = r.key
  OBVIOUS
<1> HIDE DEF keep
<1>3. QED
  BY <1>1, <1>2, KeepProperties

\* What a post carries and what the cloud then has.
LEMMA BambuIngestFacts ==
  ASSUME BambuInv
  PROVE  /\ Bambu!Ingest => /\ received' \in Seq(Records)
                            /\ ToSet(received) \subseteq ToSet(received')
                            /\ ToSet(received') \subseteq ToSet(received) \cup ToSet(jobs)
         /\ Bambu!Ingest /\ Len(jobs) <= PayloadMax => ToSet(jobs) \subseteq ToSet(received')
<1>1. jobs \in Seq(Records) /\ received \in Seq(Records) /\ Len(jobs) \in Nat
  BY DEF BambuInv, BambuTyped
<1> DEFINE n == IF Len(jobs) > PayloadMax THEN PayloadMax ELSE Len(jobs)
           sent == SubSeq(jobs, 1, n)
           new == Keep(sent, ToSet(sent) \ ToSet(received))
<1>2. n \in 1 - 1 .. Len(jobs) /\ 1 \in 1 .. Len(jobs) + 1 /\ (Len(jobs) <= PayloadMax => n = Len(jobs))
  BY <1>1
<1>3. Bambu!Ingest => received' = received \o new
  BY SameLists DEF Bambu!Ingest, Bambu!Payload
<1> HIDE DEF n
<1>4. sent \in Seq(Records) /\ ToSet(sent) \subseteq ToSet(jobs)
  BY <1>1, <1>2, SubSeqSet
<1>5. Len(jobs) <= PayloadMax => sent = jobs
  BY <1>1, <1>2
<1> HIDE DEF sent
<1>6. new \in Seq(Records) /\ ToSet(new) = ToSet(sent) \ ToSet(received)
  BY <1>4, KeepProperties
<1> HIDE DEF new
<1>7. ToSet(received \o new) = ToSet(received) \cup ToSet(new) /\ received \o new \in Seq(Records)
  BY <1>1, <1>6, ConcatSet
<1>8. QED
  BY <1>3, <1>4, <1>5, <1>6, <1>7

\* Every step of theirs is such a move.
LEMMA BooksStep ==
  ASSUME BambuInv,
         \/ Bambu!Heartbeat \/ Bambu!Rescue \/ Bambu!StartAdapter \/ Bambu!Die \/ Bambu!Restart
         \/ UNCHANGED Bambu!vars
  PROVE  BooksMove
<1> USE DEF Bambu!printerVars, Bambu!adapterVars, Bambu!beatVars, Bambu!histVars
<1>1. /\ tracker \in BambuTrackers /\ Len(tracker.pending) <= MaxPending /\ tracker.pending \in Seq(Records)
      /\ orphans \in Seq(Records) /\ jobs \in Seq(Records) /\ received \in Seq(Records)
      /\ ToSet(orphans) \cup ToSet(jobs) \cup ToSet(tracker.pending) \cup ToSet(received) \cup lost \subseteq emitted
  BY DEF BambuInv, BambuTyped, BambuHeld, BambuTrackers
<1>2. <<>> \in Seq(Records) /\ ToSet(<<>>) = {} /\ Len(<<>>) = 0
  BY DEF ToSet
<1>3. /\ orphans \o tracker.pending \in Seq(Records) /\ orphans \o <<>> = orphans
      /\ ToSet(orphans \o tracker.pending) \subseteq emitted
  BY <1>1, ConcatSet
<1>4. CASE Bambu!CollectJobs
  BY <1>1, <1>3, <1>4 DEF Bambu!CollectJobs, BooksMove
<1>5. CASE Bambu!PostOk
  BY <1>1, <1>5, BambuIngestFacts DEF Bambu!PostOk, BooksMove
<1>6. CASE Bambu!PostFailed
  BY <1>1, <1>2, <1>6, BambuIngestFacts DEF Bambu!PostFailed, BooksMove
<1>7. CASE Bambu!AckJobs
  <2>1. /\ Bambu!Unacked(orphans) \in Seq(Records) /\ ToSet(Bambu!Unacked(orphans)) \subseteq emitted
        /\ Bambu!Unacked(tracker.pending) \in Seq(Records)
        /\ ToSet(Bambu!Unacked(tracker.pending)) \subseteq emitted
        /\ Len(Bambu!Unacked(tracker.pending)) <= MaxPending
    BY <1>1, BambuUnackedFacts
  <2>2. /\ tracker' \in BambuTrackers /\ tracker'.active = tracker.active
        /\ tracker'.pending \in {tracker.pending, Bambu!Unacked(tracker.pending)}
    BY <1>1, <1>7, <2>1 DEF Bambu!AckJobs, BambuTrackers
  <2>3. QED
    BY <1>1, <1>2, <1>7, <2>1, <2>2 DEF Bambu!AckJobs, BooksMove
<1>8. CASE Bambu!StopAdapter
  BY <1>1, <1>2, <1>8, BambuNewTracker, SameLists DEF Bambu!StopAdapter, BooksMove
<1>9. CASE Bambu!Rescue
  BY <1>1, <1>3, <1>9 DEF Bambu!Rescue, BooksMove
<1>10. CASE Bambu!StartAdapter \/ Bambu!Restart \/ UNCHANGED Bambu!vars
  BY <1>1, <1>10 DEF Bambu!StartAdapter, Bambu!Restart, Bambu!vars, BooksMove
<1>11. CASE Bambu!Die
  BY <1>1, <1>2, <1>11, BambuNewTracker, SameLists DEF Bambu!Die, BooksMove
<1>12. QED
  BY <1>4, <1>5, <1>6, <1>7, <1>8, <1>9, <1>10, <1>11 DEF Bambu!Heartbeat

\* Every step keeps the invariant.
LEMMA NextBambu ==
  ASSUME BambuInv, [Bambu!Next]_(Bambu!vars), "late" \notin Weather
  PROVE  BambuInv'
<1>1. CASE Bambu!Printer
  BY <1>1, BambuPrinterStep
<1>2. CASE Bambu!OnMessage
  BY <1>2, OnMessageStep
<1>3. CASE \/ Bambu!Heartbeat \/ Bambu!Rescue \/ Bambu!StartAdapter \/ Bambu!Die \/ Bambu!Restart
           \/ UNCHANGED Bambu!vars
  BY <1>3, BooksStep, BooksMoveKeeps
<1>4. QED
  BY <1>1, <1>2, <1>3 DEF Bambu!Next

\* The invariant holds.
LEMMA BambuInvariance ==
  ASSUME "late" \notin Weather PROVE Bambu!Spec => []BambuInv
<1>1. BambuInv /\ [Bambu!Next]_(Bambu!vars) => BambuInv'
  BY NextBambu
<1>2. QED
  BY <1>1, InitBambu, PTL DEF Bambu!Spec

\* Billing of Bambu prints: a row says "done" only of a print that finished, and no print
\* has two such rows, whatever restarts, teardowns, missed frames, reprints and prints
\* without a task id there were (observe, _emit_recovered), as long as name and id come
\* with the state they belong to.
THEOREM PrintsBilledOnce ==
  ASSUME "late" \notin Weather PROVE Bambu!Spec => []BilledOnce
BY BambuInvariance, BambuInvImplies, PTL

\* A record tells of one print only, and two prints never share a job key, unless the hub
\* saw nothing of the first one's end (_job_changed, _refresh_identity), under the same
\* hypothesis.
THEOREM NoPrintsMerge ==
  ASSUME "late" \notin Weather PROVE Bambu!Spec => []NoSilentMerge
BY BambuInvariance, BambuInvImplies, PTL

\* Records are acknowledged only when the cloud has been sent them: as long as the payload
\* carries all records of a beat.
BambuFits == Len(jobs) <= PayloadMax

Kept ==
  /\ RecordsKept
  /\ pc = "ack" => ToSet(jobs) \subseteq ToSet(received)

\* RecordsKept by place.
LEMMA KeptMeans ==
  RecordsKept <=> \A r \in emitted : \E s \in Somewhere : s.key = r.key /\ s.status = r.status
BY SameLists DEF RecordsKept, Somewhere

\* Nothing is missed as long as nothing leaves its place.
LEMMA KeptStays ==
  ASSUME Kept, Somewhere \subseteq Somewhere', emitted' \subseteq emitted \cup Somewhere'
  PROVE  RecordsKept'
<1>1. \A r \in emitted : \E s \in Somewhere : s.key = r.key /\ s.status = r.status
  BY KeptMeans DEF Kept
<1>2. \A r \in emitted' : \E s \in Somewhere' : s.key = r.key /\ s.status = r.status
  BY <1>1
<1>3. QED
  BY <1>2, SameLists DEF RecordsKept, Somewhere

\* An acknowledgement by key takes records off that the cloud was sent under their key,
\* and records of one key tell the same.
LEMMA AckKeeps ==
  ASSUME BambuInv, Kept, Bambu!AckJobs
  PROVE  Kept'
<1>1. /\ orphans \in Seq(Records) /\ tracker.pending \in Seq(Records) /\ tracker \in BambuTrackers
      /\ ToSet(orphans) \cup ToSet(jobs) \cup ToSet(tracker.pending) \subseteq emitted
      /\ ToSet(jobs) \subseteq ToSet(received)
  BY DEF BambuInv, BambuTyped, BambuHeld, BambuTrackers, Kept, Bambu!AckJobs
<1>2. /\ orphans' = Bambu!Unacked(orphans)
      /\ tracker'.pending \in {tracker.pending, Bambu!Unacked(tracker.pending)}
      /\ pc' = "idle" /\ UNCHANGED <<received, emitted, lost>>
  BY <1>1 DEF Bambu!AckJobs, Bambu!histVars, BambuTrackers
<1>3. \A r \in ToSet(orphans) \cup ToSet(tracker.pending) :
        r \in ToSet(orphans') \cup ToSet(tracker'.pending) \/ \E j \in ToSet(jobs) : j.key = r.key
  BY <1>1, <1>2, BambuUnackedFacts
<1>4. \A r \in emitted, j \in ToSet(jobs) : j.key = r.key => j.status = r.status
  BY <1>1 DEF BambuInv, Agree
<1>5. ASSUME NEW r \in emitted PROVE \E s \in Somewhere' : s.key = r.key /\ s.status = r.status
  <2>1. PICK s \in Somewhere : s.key = r.key /\ s.status = r.status
    BY KeptMeans DEF Kept
  <2>2. CASE s \in Somewhere'
    BY <2>1, <2>2
  <2>3. CASE s \notin Somewhere'
    <3>1. s \in ToSet(orphans) \cup ToSet(tracker.pending)
      BY <1>2, <2>1, <2>3 DEF Somewhere
    <3>2. PICK j \in ToSet(jobs) : j.key = s.key
      BY <1>3, <2>3, <3>1 DEF Somewhere
    <3>3. j \in Somewhere'
      BY <1>1, <1>2 DEF Somewhere
    <3>4. j.key = r.key /\ j.status = r.status
      BY <1>4, <2>1, <3>2
    <3>5. QED
      BY <3>3, <3>4
  <2>4. QED
    BY <2>2, <2>3
<1>6. RecordsKept'
  BY <1>2, <1>5, SameLists DEF RecordsKept, Somewhere
<1>7. QED
  BY <1>2, <1>6 DEF Kept

\* Every step keeps every record somewhere.
LEMMA NextKept ==
  ASSUME BambuInv, Kept, BambuFits, [Bambu!Next]_(Bambu!vars), "late" \notin Weather
  PROVE  Kept'
<1> USE DEF Bambu!printerVars, Bambu!adapterVars, Bambu!beatVars, Bambu!histVars
<1>1. CASE Bambu!Printer
  <2>1. UNCHANGED <<tracker, orphans, jobs, received, emitted, lost, pc>>
    BY <1>1 DEF Bambu!Printer, Bambu!StartPrint, Bambu!Proceed, Bambu!EndPrint
  <2>2. Somewhere' = Somewhere
    BY <2>1 DEF Somewhere
  <2>3. QED
    BY <2>1, <2>2, KeptStays DEF Kept
<1>2. CASE Bambu!OnMessage
  <2>1. PICK a \in BambuTrackers : Framed(a)
    BY <1>2, OnMessageFrames
  <2>2. tracker' = a /\ UNCHANGED <<orphans, pc, jobs, received>>
    BY <2>1 DEF Framed
  <2>3. /\ ToSet(tracker.pending) \cup lost \subseteq ToSet(a.pending) \cup lost'
        /\ emitted' \subseteq emitted \cup ToSet(a.pending) \cup lost'
    BY <2>1, FramedHistory
  <2>4. QED
    BY <2>2, <2>3, KeptStays DEF Kept, Somewhere
<1>3. CASE Bambu!AckJobs
  BY <1>3, AckKeeps
<1>4. CASE Bambu!PostOk
  <2>1. Bambu!Ingest /\ UNCHANGED <<tracker, orphans, jobs, emitted, lost>>
    BY <1>4 DEF Bambu!PostOk
  <2>2. ToSet(received) \subseteq ToSet(received') /\ ToSet(jobs) \subseteq ToSet(received')
    BY <2>1, BambuIngestFacts DEF BambuFits
  <2>3. QED
    BY <2>1, <2>2, KeptStays DEF Kept, Somewhere
<1>5. CASE Bambu!PostFailed
  <2>1. UNCHANGED <<tracker, orphans, emitted, lost>> /\ pc' = "idle" /\ ToSet(received) \subseteq ToSet(received')
    BY <1>5, BambuIngestFacts DEF Bambu!PostFailed
  <2>2. QED
    BY <2>1, KeptStays DEF Kept, Somewhere
<1>6. CASE Bambu!Rescue
  <2>1. /\ orphans' = orphans \o tracker.pending /\ pc' = "stop"
        /\ UNCHANGED <<tracker, received, emitted, lost>>
    BY <1>6 DEF Bambu!Rescue
  <2>2. ToSet(orphans') = ToSet(orphans) \cup ToSet(tracker.pending)
    <3>1. orphans \in Seq(Records) /\ tracker.pending \in Seq(Records)
      BY DEF BambuInv, BambuTyped, BambuTrackers
    <3>2. QED
      BY <2>1, <3>1, ConcatSet
  <2>3. QED
    BY <2>1, <2>2, KeptStays DEF Kept, Somewhere
<1>7. CASE Bambu!StopAdapter
  <2>1. /\ lost' = lost \cup (ToSet(tracker.pending) \ ToSet(orphans)) /\ pc' = "idle"
        /\ UNCHANGED <<orphans, received, emitted>>
    BY <1>7, SameLists DEF Bambu!StopAdapter
  <2>2. QED
    BY <2>1, KeptStays DEF Kept, Somewhere
<1>8. CASE Bambu!Die
  <2>1. /\ lost' = lost \cup ((ToSet(orphans) \cup ToSet(tracker.pending)) \ ToSet(received)) /\ pc' = "idle"
        /\ UNCHANGED <<received, emitted>>
    BY <1>8, SameLists DEF Bambu!Die
  <2>2. QED
    BY <2>1, KeptStays DEF Kept, Somewhere
<1>9. CASE Bambu!CollectJobs \/ Bambu!StartAdapter \/ Bambu!Restart \/ UNCHANGED Bambu!vars
  <2>1. /\ UNCHANGED <<tracker, orphans, received, emitted, lost>>
        /\ pc' = "post" \/ UNCHANGED <<pc, jobs>>
    BY <1>9 DEF Bambu!CollectJobs, Bambu!StartAdapter, Bambu!Restart, Bambu!vars
  <2>2. QED
    BY <2>1, KeptStays DEF Kept, Somewhere
<1>10. QED
  BY <1>1, <1>2, <1>3, <1>4, <1>5, <1>6, <1>7, <1>8, <1>9 DEF Bambu!Next, Bambu!Heartbeat

\* A record the Bambu tracker buffered is with the cloud, in the adapter's buffer or among
\* the orphans, or is one of the accepted losses: ack_jobs by job key removes only what was
\* sent, as long as the records of a beat fit into jobs[:256].
THEOREM BambuRecordsAreKept ==
  ASSUME "late" \notin Weather
  PROVE  Bambu!Spec /\ []BambuFits => []RecordsKept
<1>1. Bambu!Init => Kept
  BY KeptMeans DEF Bambu!Init, Kept
<1>2. BambuInv /\ Kept /\ BambuFits /\ [Bambu!Next]_(Bambu!vars) => Kept'
  BY NextKept
<1>3. Kept => RecordsKept
  BY DEF Kept
<1>4. QED
  BY <1>1, <1>2, <1>3, BambuInvariance, PTL DEF Bambu!Spec

\* Where the heartbeat thread and the adapter stand.
Standing ==
  /\ pc \in {"idle", "post", "ack", "stop"} /\ (pc # "idle" => up)
  /\ ~attached => tracker = Bambu!NewTracker /\ data = Bambu!NoData

\* Every step keeps it.
LEMMA NextStanding == Standing /\ [Bambu!Next]_(Bambu!vars) => Standing'
<1> SUFFICES ASSUME Standing, [Bambu!Next]_(Bambu!vars) PROVE Standing'
  OBVIOUS
<1> USE DEF Bambu!printerVars, Bambu!adapterVars, Bambu!beatVars, Bambu!histVars
<1>1. CASE Bambu!Printer \/ UNCHANGED Bambu!vars
  BY <1>1 DEF Bambu!Printer, Bambu!StartPrint, Bambu!Proceed, Bambu!EndPrint, Bambu!vars, Standing
<1>2. CASE Bambu!OnMessage
  BY <1>2 DEF Bambu!OnMessage, Standing
<1>3. CASE Bambu!CollectJobs \/ Bambu!PostOk \/ Bambu!PostFailed \/ Bambu!AckJobs \/ Bambu!Rescue
  <2>1. /\ up /\ up' /\ UNCHANGED <<attached, data>> /\ (~attached => tracker' = tracker)
        /\ pc' \in {"idle", "post", "ack", "stop"}
    BY <1>3 DEF Bambu!CollectJobs, Bambu!PostOk, Bambu!PostFailed, Bambu!AckJobs, Bambu!Rescue
  <2>2. QED
    BY <2>1 DEF Standing
<1>4. CASE Bambu!StopAdapter \/ Bambu!StartAdapter \/ Bambu!Die \/ Bambu!Restart
  BY <1>4 DEF Bambu!StopAdapter, Bambu!StartAdapter, Bambu!Die, Bambu!Restart, Standing
<1>5. QED
  BY <1>1, <1>2, <1>3, <1>4 DEF Bambu!Next, Bambu!Heartbeat

\* The types of PrintJobs, under the same hypothesis: the buffer of a tracker stays under
\* its cap (_buffer), whatever is dropped or delivered is a record that was buffered, and
\* nothing of a tracker survives its adapter (_stop).
THEOREM BambuTypesHold ==
  ASSUME "late" \notin Weather PROVE Bambu!Spec => []Bambu!TypeOK
<1>1. Bambu!Init => Standing
  BY DEF Bambu!Init, Standing
<1>2. BambuInv /\ Standing => Bambu!TypeOK
  <2> SUFFICES ASSUME BambuInv, Standing PROVE Bambu!TypeOK
    OBVIOUS
  <2>1. /\ ToSet(tracker.pending) \cup ToSet(orphans) \cup ToSet(jobs) \cup emitted \subseteq Records
        /\ lost \subseteq emitted /\ ToSet(received) \subseteq emitted
        /\ Len(tracker.pending) <= MaxPending
    BY DEF BambuInv, BambuTyped, BambuHeld
  <2>2. printer.state \in {"IDLE"} \cup Bambu!StillActive \cup Bambu!Terminal
    BY DEF BambuInv, BambuTyped, Telemetry
  <2>3. Bambu!Records = Records /\ \A s : Bambu!ToSet(s) = ToSet(s)
    BY SameLists DEF Bambu!Records, Records, Bambu!Keys, Keys
  <2>4. /\ \A r \in Bambu!ToSet(tracker.pending) \cup Bambu!ToSet(orphans) \cup Bambu!ToSet(jobs) \cup emitted :
             r \in Bambu!Records
        /\ Bambu!ToSet(received) \subseteq emitted
    BY <2>1, <2>3
  <2>5. QED
    BY <2>1, <2>2, <2>4 DEF Standing, Bambu!TypeOK
<1>3. QED
  BY <1>1, <1>2, NextStanding, BambuInvariance, PTL DEF Bambu!Spec
===============================================================================
