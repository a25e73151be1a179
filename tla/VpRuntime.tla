------------------------------- MODULE VpRuntime -------------------------------
(***************************************************************************)
(* One running virtual printer (vprinter/): a slicer sends a job by        *)
(* uploading a file over FTPS (ftp_server.py) and publishing a             *)
(* project_file command over MQTT (mqtt_broker.py), in either order; the   *)
(* coordinator (capture.py) pairs the two halves by member and file name   *)
(* within a time limit and hands the pair to on_capture.  Everything runs  *)
(* on one asyncio loop: a handler is cut into steps at its awaits.         *)
(*                                                                         *)
(* A send is one press of the slicer's button: its file content is its     *)
(* own, its key (member and file name) may be shared with other sends.     *)
(***************************************************************************)
EXTENDS Integers, Sequences, FiniteSets, SequencesExt, Lists

CONSTANTS
  Sends,        \* sends of .3mf jobs
  Keys,         \* capture keys: pairs of member and file name
  Conns,        \* MQTT connections, each made once
  Nil,          \* None
  MaxPending,   \* max_pending, per bucket
  MaxPerKey,    \* max_pending_per_key
  MaxPublishes  \* bound: project_file commands in a behaviour, repeats included

ASSUME VpRuntimeAssumption ==
  /\ Nil \notin Sends \cup Conns
  /\ MaxPending \in Nat \ {0} /\ MaxPerKey \in Nat \ {0}
  /\ MaxPublishes \in Nat

Kinds == {"upload", "project_file"}

VARIABLES
  key,        \* each send's capture key
  md5,        \* sends whose project_file carries an md5
  life,       \* of the runtime: up, then the stages of stop()
  conn,       \* per connection, where its _handle_client stands
  pub,        \* per connection, the send whose project_file it is handling
  closing,    \* connections whose writer is closing and whose handler has not ended
  writer,     \* MqttBroker._active_writer
  session,    \* MqttBroker._active_session
  gcode,      \* MqttBroker._gcode_state
  finish,     \* a _finish_task is pending
  upload,     \* per send, where its STOR stands
  slot,       \* holder of the upload semaphore
  pending,    \* both buckets, in order of arrival: [send, kind]
  timer,      \* an _expiry_handle is set
  captured,   \* history: <<upload's send, project_file's send>> given to on_capture
  commanded,  \* history: sends whose project_file reached the coordinator
  lost,       \* history: sends with a half expired, evicted, cleared or not assembled
  overtaken,  \* history: sessions put aside by one that an earlier connection set up late
  publishes   \* history: project_file commands handled, per send

brokerVars == <<conn, pub, closing, writer, session, gcode, finish>>
ftpVars == <<upload, slot>>
captureVars == <<pending, timer, captured, commanded, lost>>
fixedVars == <<key, md5>>
vars == <<fixedVars, life, brokerVars, ftpVars, captureVars, overtaken, publishes>>

Init ==
  /\ key \in [Sends -> Keys] /\ md5 \in SUBSET Sends
  /\ life = "up"
  /\ conn = [c \in Conns |-> "new"] /\ pub = [c \in Conns |-> Nil]
  /\ closing = {} /\ writer = Nil /\ session = Nil
  /\ gcode = "IDLE" /\ finish = FALSE
  /\ upload = [s \in Sends |-> "none"] /\ slot = Nil
  /\ pending = <<>> /\ timer = FALSE
  /\ captured = {} /\ commanded = {} /\ lost = {} /\ overtaken = {}
  /\ publishes = [s \in Sends |-> 0]

-------------------------------------------------------------------------------
(* CaptureCoordinator.  Arrival times only grow, so the items that have expired
   at some moment are the first n, for any n, and the oldest comes first. *)

\* The places of one bucket's items, and of those with one key.
Bucket(q, kind) == {i \in DOMAIN q : q[i].kind = kind}
Waiting(q, k, kind) == {i \in Bucket(q, kind) : key[q[i].send] = k}

Count(q, k, kind) == Cardinality(Waiting(q, k, kind))

\* _prune_expired
Prune(q, n) == SubSeq(q, n + 1, Len(q))

\* _enforce_per_key_limit, then _enforce_total_limit, after one item was added.
Limit(q, places, max) == IF Cardinality(places) > max THEN RemoveAt(q, Min(places)) ELSE q

LimitKey(q, k, kind) == Limit(q, Waiting(q, k, kind), MaxPerKey)

LimitTotal(q, kind) == Limit(q, Bucket(q, kind), MaxPending)

\* The bucket with a new item in it, before _try_capture.
Added(s, kind, n) ==
  LET grown == Append(Prune(pending, n), [send |-> s, kind |-> kind])
  IN  LimitTotal(LimitKey(grown, key[s], kind), kind)

Without(q, k) == Keep(q, {it \in ToSet(q) : key[it.send] # k})

TheSend(q, k, kind) == q[Min(Waiting(q, k, kind))].send

SendsIn(items) == {it.send : it \in items}

\* Items that left q for r.
Dropped(q, r) == SendsIn(ToSet(q) \ ToSet(r))

\* Mutant: a capture is tried before the new item is in its bucket.
RecordLate(s, kind) ==
  /\ pending' = Added(s, kind, 0)
  /\ timer' = TRUE
  /\ commanded' = IF kind = "project_file" THEN commanded \cup {s} ELSE commanded
  /\ lost' = lost \cup Dropped(pending, pending')
  /\ UNCHANGED captured

\* _try_capture and assemble_captured_job: exactly one of each is captured; an
\* ambiguous match, a wrong md5 and a file that cannot be assembled drop all
\* there is of the key.
Matched(q, k) == Count(q, k, "upload") > 0 /\ Count(q, k, "project_file") > 0
Single(q, k) == Count(q, k, "upload") = 1 /\ Count(q, k, "project_file") = 1

\* Mutant: the md5 is not looked at.
AssembledAny(u, p) == TRUE

Assembled(u, p) == p \in md5 => u = p

\* record_upload and record_project_file; good says that the file can be read.
Record(s, kind) ==
  \E n \in 0 .. Len(pending) :
    LET q == Added(s, kind, n)
        k == key[s]
        u == TheSend(q, k, "upload")
        p == TheSend(q, k, "project_file")
        fits == Single(q, k) /\ Assembled(u, p)
    IN  \E good \in {TRUE, ~fits} :
          /\ pending' = IF Matched(q, k) THEN Without(q, k) ELSE q
          /\ captured' = IF fits /\ good THEN captured \cup {<<u, p>>} ELSE captured
          /\ timer' = (pending' # <<>>)
          /\ commanded' = IF kind = "project_file" THEN commanded \cup {s} ELSE commanded
          /\ lost' = lost \cup Dropped(pending, q) \cup (IF fits /\ ~good THEN {u, p} ELSE {})

\* Mutant: the timer is not set again for what is left.
ExpirePendingOnce ==
  /\ timer
  /\ \E n \in 1 .. Len(pending) : pending' = Prune(pending, n)
  /\ timer' = FALSE
  /\ lost' = lost \cup Dropped(pending, pending')
  /\ UNCHANGED <<fixedVars, life, brokerVars, ftpVars, captured, commanded, overtaken, publishes>>

\* The timer, set for the oldest item: upload_wait_sec have passed.
ExpirePending ==
  /\ timer
  /\ \E n \in 1 .. Len(pending) : pending' = Prune(pending, n)
  /\ timer' = (pending' # <<>>)
  /\ lost' = lost \cup Dropped(pending, pending')
  /\ UNCHANGED <<fixedVars, life, brokerVars, ftpVars, captured, commanded, overtaken, publishes>>

-------------------------------------------------------------------------------
(* MqttBroker. *)

Live(c) == conn[c] \notin {"new", "gone"}

SessionIsActive(c) == session = c /\ c \notin closing

\* A new connection displaces the one there is, before it has shown who it is.
HandleClient(c) ==
  /\ life = "up" /\ conn[c] = "new"
  /\ \/ /\ writer # Nil /\ writer \notin closing
        /\ closing' = closing \cup {writer}
        /\ session' = Nil
     \/ /\ writer = Nil \/ writer \in closing
        /\ UNCHANGED <<closing, session>>
  /\ writer' = c
  /\ conn' = [conn EXCEPT ![c] = "connecting"]
  /\ UNCHANGED <<fixedVars, life, pub, gcode, finish, ftpVars, captureVars, overtaken, publishes>>

\* Mutant: a new session does not clear the print state.
ConnackNoReset(c) ==
  /\ conn[c] = "connecting"
  /\ conn' = [conn EXCEPT ![c] = "ready"]
  /\ session' = c
  /\ overtaken' = IF session # Nil /\ writer = session THEN overtaken \cup {session} ELSE overtaken
  /\ UNCHANGED <<fixedVars, life, pub, closing, writer, gcode, finish, ftpVars, captureVars, publishes>>

\* CONNECT was read and accepted and CONNACK written, neither of which changes
\* anything: the session is set up; _reset_print_state cancels a pending FINISH.
Connack(c) ==
  /\ conn[c] = "connecting"
  /\ conn' = [conn EXCEPT ![c] = "ready"]
  /\ session' = c
  /\ overtaken' = IF session # Nil /\ writer = session THEN overtaken \cup {session} ELSE overtaken
  /\ gcode' = "IDLE" /\ finish' = FALSE
  /\ UNCHANGED <<fixedVars, life, pub, closing, writer, ftpVars, captureVars, publishes>>

\* A project_file is read and its PUBACK is being written.  (From a session that
\* is not the active one it is read and ignored: nothing changes.)
Publish(c, s) ==
  /\ conn[c] = "ready" /\ SessionIsActive(c)
  /\ SumFunction(publishes) < MaxPublishes
  /\ publishes' = [publishes EXCEPT ![s] = @ + 1]
  /\ conn' = [conn EXCEPT ![c] = "puback"]
  /\ pub' = [pub EXCEPT ![c] = s]
  /\ UNCHANGED <<fixedVars, life, closing, writer, session, gcode, finish, ftpVars, captureVars, overtaken>>

\* The print ack: PREPARE, and the ack is being written.  Nothing of it happens,
\* and the command is not recorded, once the session has been displaced.
SendPrintAck(c) ==
  /\ conn[c] = "puback"
  /\ \/ /\ SessionIsActive(c)
        /\ gcode' = "PREPARE"
        /\ conn' = [conn EXCEPT ![c] = "ack"]
        /\ UNCHANGED pub
     \/ /\ ~SessionIsActive(c)
        /\ conn' = [conn EXCEPT ![c] = "ready"]
        /\ pub' = [pub EXCEPT ![c] = Nil]
        /\ UNCHANGED gcode
  /\ UNCHANGED <<fixedVars, life, closing, writer, session, finish, ftpVars, captureVars, overtaken, publishes>>

\* The ack is written: FINISH is scheduled and the command recorded, or, when the
\* session was displaced meanwhile, neither.
ProjectFile(c) ==
  /\ conn[c] = "ack"
  /\ \/ /\ SessionIsActive(c)
        /\ finish' = TRUE
        /\ Record(pub[c], "project_file")
     \/ /\ ~SessionIsActive(c)
        /\ UNCHANGED <<finish, captureVars>>
  /\ conn' = [conn EXCEPT ![c] = "ready"]
  /\ pub' = [pub EXCEPT ![c] = Nil]
  /\ UNCHANGED <<fixedVars, life, closing, writer, session, gcode, ftpVars, overtaken, publishes>>

\* _finish, 1.5 s after it was scheduled.
Finish ==
  /\ finish
  /\ finish' = FALSE
  /\ gcode' = "FINISH"
  /\ UNCHANGED <<fixedVars, life, conn, pub, closing, writer, session, ftpVars, captureVars, overtaken, publishes>>

\* Mutant: an ending handler clears the active session whosever it is.
HandlerEndsAny(c) ==
  /\ Live(c)
  /\ conn' = [conn EXCEPT ![c] = "gone"] /\ pub' = [pub EXCEPT ![c] = Nil]
  /\ closing' = closing \ {c} /\ overtaken' = overtaken \ {c}
  /\ writer' = IF writer = c THEN Nil ELSE writer
  /\ session' = Nil
  /\ UNCHANGED <<fixedVars, life, gcode, finish, ftpVars, captureVars, publishes>>

\* The finally clause of _handle_client: refused, disconnected, timed out, failed.
HandlerEnds(c) ==
  /\ Live(c)
  /\ conn' = [conn EXCEPT ![c] = "gone"] /\ pub' = [pub EXCEPT ![c] = Nil]
  /\ closing' = closing \ {c} /\ overtaken' = overtaken \ {c}
  /\ writer' = IF writer = c THEN Nil ELSE writer
  /\ session' = IF session = c THEN Nil ELSE session
  /\ UNCHANGED <<fixedVars, life, gcode, finish, ftpVars, captureVars, publishes>>

-------------------------------------------------------------------------------
(* FtpSession.cmd_stor. *)

\* STOR from a client that is logged in and has a passive port.  The FTPS
\* listener outlives the broker during stop().
Stor(s) ==
  /\ life \in {"up", "closing", "broker_closed"}
  /\ upload[s] = "none"
  /\ upload' = [upload EXCEPT ![s] = "waiting"]
  /\ UNCHANGED <<fixedVars, life, brokerVars, slot, captureVars, overtaken, publishes>>

\* One upload at a time is received, up to its reply and its record.
Acquire(s) ==
  /\ upload[s] = "waiting" /\ slot = Nil
  /\ slot' = s
  /\ upload' = [upload EXCEPT ![s] = "receiving"]
  /\ UNCHANGED <<fixedVars, life, brokerVars, captureVars, overtaken, publishes>>

\* The file is complete, has its final name and "226" is written: _on_stored
\* shows FINISH and records the upload.
Stored(s) ==
  /\ upload[s] = "receiving"
  /\ upload' = [upload EXCEPT ![s] = "done"]
  /\ slot' = Nil
  /\ gcode' = IF life \in {"up", "closing"} THEN "FINISH" ELSE gcode
  /\ Record(s, "upload")
  /\ UNCHANGED <<fixedVars, life, conn, pub, closing, writer, session, finish, overtaken, publishes>>

\* Mutant: the slot is given back only when the upload succeeded.
StorFailsHolding(s) ==
  /\ upload[s] \in {"waiting", "receiving"}
  /\ upload' = [upload EXCEPT ![s] = "failed"]
  /\ UNCHANGED <<fixedVars, life, brokerVars, slot, captureVars, overtaken, publishes>>

\* A timeout, a size over the limit, a lost connection, an abort: at any await.
StorFails(s) ==
  /\ upload[s] \in {"waiting", "receiving"}
  /\ upload' = [upload EXCEPT ![s] = "failed"]
  /\ slot' = IF slot = s THEN Nil ELSE slot
  /\ UNCHANGED <<fixedVars, life, brokerVars, captureVars, overtaken, publishes>>

-------------------------------------------------------------------------------
(* _VirtualPrinterRuntime.stop *)

\* The MQTT listener is closed; MqttBroker.close cancels a pending FINISH and
\* waits for its task, while the handlers go on: they may schedule another one.
CancelFinish ==
  /\ life = "up" /\ finish
  /\ life' = "closing"
  /\ finish' = FALSE
  /\ UNCHANGED <<fixedVars, conn, pub, closing, writer, session, gcode, ftpVars, captureVars, overtaken, publishes>>

\* Then, or at once when no FINISH is pending, every client handler is cancelled
\* and the broker let go: a FINISH scheduled meanwhile changes what nobody reads.
CloseBroker ==
  /\ life = "closing" \/ (life = "up" /\ ~finish)
  /\ life' = "broker_closed"
  /\ conn' = [c \in Conns |-> IF Live(c) THEN "gone" ELSE conn[c]]
  /\ pub' = [c \in Conns |-> Nil]
  /\ closing' = {} /\ overtaken' = {}
  /\ writer' = Nil /\ session' = Nil /\ gcode' = "IDLE" /\ finish' = FALSE
  /\ UNCHANGED <<fixedVars, ftpVars, captureVars, publishes>>

\* FtpServer.close aborts the sessions, which go on until their next await ends.
AbortFtp ==
  /\ life = "broker_closed"
  /\ life' = "ftp_aborted"
  /\ UNCHANGED <<fixedVars, brokerVars, ftpVars, captureVars, overtaken, publishes>>

\* Mutant: the coordinator is not cleared.
StopUncleared ==
  /\ life = "ftp_aborted"
  /\ life' = "stopped"
  /\ upload' = [s \in Sends |-> IF upload[s] \in {"none", "done"} THEN upload[s] ELSE "failed"]
  /\ slot' = Nil
  /\ UNCHANGED <<fixedVars, brokerVars, captureVars, overtaken, publishes>>

\* Its tasks are cancelled, and the coordinator is cleared.
Stop ==
  /\ life = "ftp_aborted"
  /\ life' = "stopped"
  /\ upload' = [s \in Sends |-> IF upload[s] \in {"none", "done"} THEN upload[s] ELSE "failed"]
  /\ slot' = Nil
  /\ pending' = <<>> /\ timer' = FALSE
  /\ lost' = lost \cup SendsIn(ToSet(pending))
  /\ UNCHANGED <<fixedVars, brokerVars, captured, commanded, overtaken, publishes>>

Broker(c) == Connack(c) \/ SendPrintAck(c) \/ ProjectFile(c)

Ftp(s) == Acquire(s) \/ StorFails(s) \/ Stored(s)

Next ==
  \/ \E c \in Conns : HandleClient(c) \/ Broker(c) \/ HandlerEnds(c) \/ \E s \in Sends : Publish(c, s)
  \/ \E s \in Sends : Stor(s) \/ Ftp(s)
  \/ Finish \/ ExpirePending
  \/ CancelFinish \/ CloseBroker \/ AbortFtp \/ Stop

Spec == Init /\ [][Next]_vars

-------------------------------------------------------------------------------
(* Properties. *)

Items == [send : Sends, kind : Kinds]

\* Types, and the resources: the limits of the two buckets hold, one upload at a
\* time is received, and the semaphore is held by exactly that one.
TypeOK ==
  /\ key \in [Sends -> Keys] /\ md5 \subseteq Sends
  /\ life \in {"up", "closing", "broker_closed", "ftp_aborted", "stopped"}
  /\ conn \in [Conns -> {"new", "connecting", "ready", "puback", "ack", "gone"}]
  /\ pub \in [Conns -> Sends \cup {Nil}]
  /\ \A c \in Conns : pub[c] # Nil <=> conn[c] \in {"puback", "ack"}
  /\ closing \subseteq Conns /\ writer \in Conns \cup {Nil} /\ session \in Conns \cup {Nil}
  /\ gcode \in {"IDLE", "PREPARE", "FINISH"} /\ finish \in BOOLEAN /\ timer \in BOOLEAN
  /\ upload \in [Sends -> {"none", "waiting", "receiving", "done", "failed"}]
  /\ \A s \in Sends : upload[s] = "receiving" <=> slot = s
  /\ pending \in Seq(Items)
  /\ \A kind \in Kinds : Cardinality(Bucket(pending, kind)) <= MaxPending
  /\ \A k \in Keys, kind \in Kinds : Count(pending, k, kind) <= MaxPerKey
  /\ captured \subseteq Sends \X Sends /\ commanded \subseteq Sends /\ lost \subseteq Sends

\* A send whose two halves both reached the coordinator, whose key no other send
\* uses and whose command was given once is captured, whatever else goes on,
\* unless a half waited too long, fell to a limit or to stop(), or the file could
\* not be assembled: no half is left waiting beside its counterpart.
SendCaptured ==
  \A s \in Sends :
    /\ upload[s] = "done" /\ s \in commanded
    /\ publishes[s] = 1 /\ \A t \in Sends \ {s} : key[t] # key[s]
    /\ s \notin lost
    => <<s, s>> \in captured

\* A capture joins halves of one member and file name, and of one send when the
\* command names the file's md5; an upload is used for one capture.
OneSend ==
  \A x \in captured :
    /\ key[x[1]] = key[x[2]] /\ (x[2] \in md5 => x[1] = x[2])
    /\ \A y \in captured : y[1] = x[1] => y = x

\* "Fresh session => present a clean idle printer": a connected slicer is shown
\* PREPARE only between its own command and the FINISH that follows it, until the
\* broker is being closed.
PrepareEnds ==
  life = "up" /\ gcode = "PREPARE" /\ session # Nil => finish \/ conn[session] = "ack"

\* "MQTT ignoring PUBLISH from displaced session": a session that is set up and
\* not the active one has had its connection closed by a later one, or an earlier
\* connection, itself displaced, was set up after it.
ServedUnlessDisplaced ==
  \A c \in Conns : conn[c] \in {"ready", "puback", "ack"} /\ session # c => c \in closing \cup overtaken

\* After stop() nothing of the runtime is left that could still lead to a capture:
\* no handler, no session, no upload, no waiting half and no timer.
StoppedIsQuiet ==
  life = "stopped" =>
    /\ \A c \in Conns : ~Live(c)
    /\ session = Nil
    /\ pending = <<>> /\ ~timer /\ slot = Nil

\* Whatever mix of arrivals, captures, evictions and expiries came before, a half
\* that waits for its counterpart has a timer that will take it away, set by the
\* last of them.
TimerCovers == timer <=> pending # <<>>
===============================================================================
