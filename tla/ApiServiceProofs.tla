-------------------------- MODULE ApiServiceProofs --------------------------
(***************************************************************************)
(* What commands and the requests over them keep, for any clients, keys,   *)
(* principals, projects, routes and any number of calls: a replaying       *)
(* command takes effect once per key, a status tells what became of a      *)
(* write, a write falls where its sender may, and the transactions         *)
(* implement the abstract ledger.                                          *)
(***************************************************************************)
EXTENDS ApiService, TLAPS

(***************************************************************************)
(* The ledger.                                                             *)
(***************************************************************************)

(* A call that runs was numbered. *)
CallsNumbered ==
    \A c \in Clients : call[c].phase # "idle" => call[c].id \in 1..MaxCalls

(* The hash of a replaying command covers the request and what it is about,
   and nothing else that changes, in the call and in the row.              *)
HashesTell ==
    /\ \A c \in Clients :
         call[c].key \in GuardedKeys => call[c].hash = Asking(call[c])
    /\ \A k \in GuardedKeys :
         row[k] # NoRow => row[k].hash = Asking(row[k])

(* A replaying command between its insert and its commit is the key's one
   writer, and the key has no row yet.                                     *)
ReservationHeld ==
    \A c \in Clients :
        /\ call[c].key \in GuardedKeys
        /\ call[c].phase \in {"reserved", "applied"}
        => /\ writer[call[c].key] = c
           /\ row[call[c].key] = NoRow

(* A call that found its key, or has committed, has a row of its request. *)
RowFound ==
    \A c \in Clients :
        /\ call[c].phase = "replaying" => call[c].key \in GuardedKeys
        /\ /\ call[c].key \in GuardedKeys
           /\ call[c].phase \in {"replaying", "committed"}
           => /\ row[call[c].key] # NoRow
              /\ Asking(row[call[c].key]) = Asking(call[c])
              /\ call[c].phase = "committed" => row[call[c].key].response = call[c].id

(* The inductive invariant. *)
LedgerInv ==
    /\ TypeOK
    /\ CallsNumbered
    /\ HashesTell
    /\ WriterIsRunning
    /\ ReservationHeld
    /\ RowFound
    /\ EffectOnce
    /\ RepliesAgree
    /\ ResponseIsAnEffect

-----------------------------------------------------------------------------
(* The fact that stands for none is one, if there is any. *)
LEMMA NoFactIsOne ==
    ASSUME fact \in Facts
    PROVE  NoFact \in Facts
  BY Zenon DEF NoFact

(* A new ledger keeps the invariant: no rows, no writers, every client idle. *)
LEMMA LedgerInit == Init => LedgerInv
  <1> SUFFICES ASSUME Init PROVE LedgerInv
    BY Zenon
  <1>1. NoFact \in Facts
    BY NoFactIsOne, Zenon DEF Init
  <1>2. PICK k \in Keys, req \in Requests :
          call = [c \in Clients |->
                    [phase |-> "idle", id |-> 0, key |-> k, req |-> req,
                     about |-> NoFact, hash |-> <<req, NoFact>>, reply |-> NoReply]]
    BY Zenon DEF Init
  <1>3. TypeOK
    BY <1>1, <1>2, LedgerAssumption DEF Init, TypeOK, Calls, Phases, Hashes, Rows
  <1>4. CallsNumbered /\ HashesTell /\ ReservationHeld /\ RowFound /\ RepliesAgree
    BY <1>2, Zenon
       DEF Init, CallsNumbered, HashesTell, ReservationHeld, RowFound, RepliesAgree, Keys, Asking
  <1>5. WriterIsRunning /\ EffectOnce /\ ResponseIsAnEffect
    BY Zenon DEF Init, WriterIsRunning, EffectOnce, ResponseIsAnEffect, Keys
  <1> QED
    BY <1>3, <1>4, <1>5, Zenon DEF LedgerInv

(* A call begins: it holds nothing yet and has been told nothing. *)
LEMMA CallInv ==
    ASSUME LedgerInv, NEW c \in Clients, NEW k \in Keys, NEW req \in Requests,
           Call(c, k, req)
    PROVE  LedgerInv'
  <1> DEFINE new == [phase |-> "begun", id |-> calls + 1, key |-> k, req |-> req,
                     about |-> IF k \in FactKeys THEN fact ELSE NoFact,
                     hash |-> Hashed(k, req), reply |-> NoReply]
  <1>1. NoFact \in Facts
    BY NoFactIsOne, Zenon DEF LedgerInv, TypeOK
  <1>2. new \in Calls /\ new.id \in 1..MaxCalls
    BY <1>1, LedgerAssumption DEF Call, LedgerInv, TypeOK, Calls, Phases, Hashes, Hashed
  <1>3. /\ call' = [call EXCEPT ![c] = new]
        /\ UNCHANGED <<fact, row, writer, effects>>
        /\ calls' \in 0..MaxCalls
        /\ call[c].phase = "idle"
    BY LedgerAssumption DEF Call, LedgerInv, TypeOK
  <1>4. new.phase = "begun" /\ new.reply = NoReply /\ new.key = k
        /\ (k \in GuardedKeys => new.hash = Asking(new))
    BY LedgerAssumption DEF Asking, Hashed
  <1> HIDE DEF new
  <1>5. call \in [Clients -> Calls]
    BY Zenon DEF LedgerInv, TypeOK
  <1>6. TypeOK' /\ CallsNumbered'
    BY <1>2, <1>3, Zenon DEF LedgerInv, TypeOK, CallsNumbered
  <1>7. HashesTell' /\ ReservationHeld' /\ RowFound' /\ RepliesAgree'
    BY <1>3, <1>4, <1>5 DEF LedgerInv, HashesTell, ReservationHeld, RowFound, RepliesAgree
  <1>8. WriterIsRunning'
    BY <1>3, <1>5 DEF LedgerInv, WriterIsRunning, TypeOK
  <1>9. EffectOnce' /\ ResponseIsAnEffect'
    BY <1>3, Zenon DEF LedgerInv, EffectOnce, ResponseIsAnEffect
  <1> QED
    BY <1>6, <1>7, <1>8, <1>9, Zenon DEF LedgerInv

(* What every step of a call leaves alone: the other calls, and of its own the
   number, the key, the request and the hash.                              *)
Moved(c) ==
    /\ call' \in [Clients -> Calls]
    /\ \A d \in Clients \ {c} : call'[d] = call[d]
    /\ call'[c].id = call[c].id
    /\ call'[c].key = call[c].key
    /\ call'[c].req = call[c].req
    /\ call'[c].about = call[c].about
    /\ Asking(call'[c]) = Asking(call[c])
    /\ call'[c].hash = call[c].hash

(* A step that changes only a call's phase and reply. *)
LEMMA MovedFrom ==
    ASSUME LedgerInv, NEW c \in Clients, NEW phase \in Phases,
           NEW reply \in (1..MaxCalls) \cup {NoReply, Conflict},
           call' = [call EXCEPT ![c].phase = phase, ![c].reply = reply]
    PROVE  Moved(c) /\ call'[c].phase = phase /\ call'[c].reply = reply
  BY Zenon DEF LedgerInv, TypeOK, Moved, Calls, Asking

(* A step that changes only a call's phase. *)
LEMMA PhaseMoved ==
    ASSUME LedgerInv, NEW c \in Clients, NEW phase \in Phases,
           call' = [call EXCEPT ![c].phase = phase]
    PROVE  Moved(c) /\ call'[c].phase = phase /\ call'[c].reply = call[c].reply
  BY Zenon DEF LedgerInv, TypeOK, Moved, Calls, Asking

(* While no row changes, what is known of the rows stays known. *)
LEMMA RowsUntouched ==
    ASSUME LedgerInv, NEW c \in Clients, Moved(c), UNCHANGED <<row, effects>>
    PROVE  HashesTell' /\ EffectOnce' /\ ResponseIsAnEffect'
  <1>1. HashesTell'
    BY DEF LedgerInv, HashesTell, Moved
  <1> QED
    BY <1>1, Zenon DEF LedgerInv, EffectOnce, ResponseIsAnEffect

(* The INSERT that finds no row makes the call the writer of the key. *)
LEMMA ReserveNewInv ==
    ASSUME LedgerInv, NEW c \in Clients, ReserveNew(c)
    PROVE  LedgerInv'
  <1> DEFINE k == call[c].key
  <1>1. /\ k \in Keys
        /\ call[c].phase = "begun"
        /\ writer[k] = NoClient
        /\ row[k] = NoRow
        /\ writer' = [writer EXCEPT ![k] = c]
        /\ UNCHANGED <<fact, row, effects, calls>>
    BY Zenon DEF ReserveNew, LedgerInv, TypeOK, Calls
  <1>2. Moved(c) /\ call'[c].phase = "reserved" /\ call'[c].reply = call[c].reply
    BY PhaseMoved, Zenon DEF ReserveNew, Phases
  <1>3. TypeOK' /\ CallsNumbered'
    BY <1>1, <1>2, Zenon DEF LedgerInv, TypeOK, CallsNumbered, Moved
  <1>4. HashesTell' /\ EffectOnce' /\ ResponseIsAnEffect'
    BY <1>1, <1>2, RowsUntouched, Zenon
  <1>5. WriterIsRunning'
    BY <1>1, <1>2 DEF LedgerInv, TypeOK, WriterIsRunning, Moved
  <1>6. ReservationHeld'
    BY <1>1, <1>2, LedgerAssumption DEF LedgerInv, TypeOK, ReservationHeld, Moved, Keys
  <1>7. RowFound' /\ RepliesAgree'
    BY <1>1, <1>2 DEF LedgerInv, RowFound, RepliesAgree, Moved
  <1> QED
    BY <1>3, <1>4, <1>5, <1>6, <1>7, Zenon DEF LedgerInv

(* A key that exists with the same hash exists with the same request. *)
LEMMA ReserveExistingInv ==
    ASSUME LedgerInv, NEW c \in Clients, ReserveExisting(c)
    PROVE  LedgerInv'
  <1> DEFINE k == call[c].key
             next == IF k \in UnguardedKeys THEN "reserved" ELSE "replaying"
  <1>1. /\ k \in Keys
        /\ call[c].phase = "begun"
        /\ row[k] # NoRow
        /\ row[k].hash = call[c].hash
        /\ UNCHANGED <<fact, row, writer, effects, calls>>
    BY Zenon DEF ReserveExisting, HashMatches, LedgerInv, TypeOK, Calls
  <1>2. Moved(c) /\ call'[c].phase = next /\ call'[c].reply = call[c].reply
    <2>1. next \in Phases
      BY Zenon DEF Phases
    <2>2. call' = [call EXCEPT ![c].phase = next]
      BY Zenon DEF ReserveExisting
    <2> HIDE DEF next
    <2> QED
      BY <2>1, <2>2, PhaseMoved, Zenon
  <1>3. TypeOK' /\ CallsNumbered'
    BY <1>1, <1>2, Zenon DEF LedgerInv, TypeOK, CallsNumbered, Moved
  <1>4. HashesTell' /\ EffectOnce' /\ ResponseIsAnEffect'
    BY <1>1, <1>2, RowsUntouched, Zenon
  <1>5. WriterIsRunning'
    BY <1>1, <1>2 DEF LedgerInv, TypeOK, WriterIsRunning, Moved
  <1>6. ReservationHeld'
    BY <1>1, <1>2, LedgerAssumption DEF LedgerInv, ReservationHeld, Moved
  <1>7. k \in GuardedKeys => Asking(row[k]) = Asking(call[c])
    BY <1>1 DEF LedgerInv, HashesTell
  <1>8. RowFound' /\ RepliesAgree'
    BY <1>1, <1>2, <1>7 DEF LedgerInv, RowFound, RepliesAgree, Moved, Keys
  <1> QED
    BY <1>3, <1>4, <1>5, <1>6, <1>8, Zenon DEF LedgerInv

(* A call that ends without having written: a conflict or a replay. *)
LEMMA AnsweredInv ==
    ASSUME LedgerInv, NEW c \in Clients, Moved(c), call'[c].phase = "idle",
           call[c].phase \in {"begun", "replaying"},
           call'[c].reply \notin {NoReply, Conflict} /\ call[c].key \in GuardedKeys
             => /\ row[call[c].key] # NoRow
                /\ row[call[c].key].response = call'[c].reply
                /\ Asking(row[call[c].key]) = Asking(call[c]),
           UNCHANGED <<fact, row, writer, effects, calls>>
    PROVE  LedgerInv'
  <1>1. TypeOK' /\ CallsNumbered'
    BY Zenon DEF LedgerInv, TypeOK, CallsNumbered, Moved
  <1>2. HashesTell' /\ EffectOnce' /\ ResponseIsAnEffect'
    BY RowsUntouched, Zenon
  <1>3. WriterIsRunning'
    BY DEF LedgerInv, TypeOK, WriterIsRunning, Moved
  <1>4. ReservationHeld' /\ RowFound'
    BY DEF LedgerInv, ReservationHeld, RowFound, Moved
  <1>5. RepliesAgree'
    BY DEF LedgerInv, RepliesAgree, Moved
  <1> QED
    BY <1>1, <1>2, <1>3, <1>4, <1>5, Zenon DEF LedgerInv

(* The commit: the writer of the key, the only call between insert and commit
   on it, makes its effect and its row visible.                            *)
LEMMA CommitInv ==
    ASSUME LedgerInv, NEW c \in Clients, Commit(c)
    PROVE  LedgerInv'
  <1> DEFINE k == call[c].key
             new == [req |-> call[c].req, about |-> call[c].about, hash |-> call[c].hash,
                     response |-> call[c].id]
  <1>1. /\ k \in Keys
        /\ call[c].phase = "applied"
        /\ effects' = [effects EXCEPT ![k] = @ \cup {call[c].id}]
        /\ row' = [row EXCEPT ![k] = new]
        /\ writer' = [writer EXCEPT ![k] = IF @ = c THEN NoClient ELSE @]
        /\ UNCHANGED <<fact, calls>>
    BY Zenon DEF Commit, LedgerInv, TypeOK, Calls
  <1>2. Moved(c) /\ call'[c].phase = "committed" /\ call'[c].reply = call[c].reply
    BY PhaseMoved, Zenon DEF Commit, Phases
  <1>3. new \in Rows /\ new # NoRow /\ call[c].id \in 1..MaxCalls
    BY <1>1, LedgerAssumption DEF LedgerInv, TypeOK, CallsNumbered, Calls, Rows, Hashes
  <1>4. /\ Asking(new) = Asking(call[c])
        /\ new.hash = call[c].hash
        /\ new.response = call[c].id
    BY Zenon DEF Asking
  <1> HIDE DEF new
  <1>5. k \in GuardedKeys => writer[k] = c /\ row[k] = NoRow
    BY <1>1, Zenon DEF LedgerInv, ReservationHeld
  <1>6. TypeOK' /\ CallsNumbered'
    BY <1>1, <1>2, <1>3, Zenon DEF LedgerInv, TypeOK, CallsNumbered, Moved
  <1>7. HashesTell'
    BY <1>1, <1>2, <1>4 DEF LedgerInv, TypeOK, HashesTell, Moved, Keys
  <1>8. WriterIsRunning'
    BY SMTT(30), <1>1, <1>2 DEF LedgerInv, TypeOK, WriterIsRunning, Moved
  <1>9. ReservationHeld'
    BY <1>1, <1>2, <1>5 DEF LedgerInv, TypeOK, ReservationHeld, Moved, Keys
  <1>10. RowFound'
    BY <1>1, <1>2, <1>3, <1>4, <1>5 DEF LedgerInv, TypeOK, RowFound, Moved, Keys
  <1>11. EffectOnce' /\ ResponseIsAnEffect'
    BY <1>1, <1>3, <1>4, <1>5, Zenon
       DEF LedgerInv, TypeOK, EffectOnce, ResponseIsAnEffect, Keys
  <1>12. RepliesAgree'
    BY <1>1, <1>2, <1>3, <1>4, <1>5 DEF LedgerInv, TypeOK, RepliesAgree, Moved, Keys
  <1> QED
    BY <1>6, <1>7, <1>8, <1>9, <1>10, <1>11, <1>12, Zenon DEF LedgerInv

(* A failure gives the key back; after the commit it only loses the answer. *)
LEMMA FailInv ==
    ASSUME LedgerInv, NEW c \in Clients, Fail(c)
    PROVE  LedgerInv'
  <1> DEFINE k == call[c].key
  <1>1. /\ k \in Keys
        /\ writer' = [writer EXCEPT ![k] = IF @ = c THEN NoClient ELSE @]
        /\ UNCHANGED <<fact, row, effects, calls>>
    BY Zenon DEF Fail, LedgerInv, TypeOK, Calls
  <1>2. Moved(c) /\ call'[c].phase = "idle" /\ call'[c].reply = call[c].reply
    BY PhaseMoved, Zenon DEF Fail, Phases
  <1>3. TypeOK' /\ CallsNumbered'
    BY <1>1, <1>2, Zenon DEF LedgerInv, TypeOK, CallsNumbered, Moved
  <1>4. HashesTell' /\ EffectOnce' /\ ResponseIsAnEffect'
    BY <1>1, <1>2, RowsUntouched, Zenon
  <1>5. WriterIsRunning'
    BY <1>1, <1>2 DEF LedgerInv, TypeOK, WriterIsRunning, Moved
  <1>6. ReservationHeld'
    BY <1>1, <1>2 DEF LedgerInv, TypeOK, ReservationHeld, Moved, Keys
  <1>7. RowFound' /\ RepliesAgree'
    BY <1>1, <1>2 DEF LedgerInv, RowFound, RepliesAgree, Moved
  <1> QED
    BY <1>3, <1>4, <1>5, <1>6, <1>7, Zenon DEF LedgerInv

(* The other steps of a call: its own phase, and at the end its answer. *)
LEMMA ServeInv ==
    ASSUME LedgerInv, NEW c \in Clients, Serve(c)
    PROVE  LedgerInv'
  <1>1. CASE ReserveNew(c)
    BY <1>1, ReserveNewInv, Zenon
  <1>2. CASE ReserveExisting(c)
    BY <1>2, ReserveExistingInv, Zenon
  <1>3. CASE ReserveConflict(c)
    <2>1. Moved(c) /\ call'[c].phase = "idle" /\ call'[c].reply = Conflict
      BY <1>3, MovedFrom, Zenon DEF ReserveConflict, Phases
    <2> QED
      BY <1>3, <2>1, AnsweredInv, Zenon DEF ReserveConflict
  <1>4. CASE Replay(c)
    <2> DEFINE k == call[c].key
    <2>1. /\ k \in GuardedKeys
          /\ row[k] # NoRow
          /\ Asking(row[k]) = Asking(call[c])
      BY <1>4, Zenon DEF Replay, LedgerInv, RowFound
    <2>2. row[k].response \in 1..MaxCalls
      BY <2>1, Zenon DEF LedgerInv, TypeOK, Rows, Keys
    <2>3. Moved(c) /\ call'[c].phase = "idle" /\ call'[c].reply = row[k].response
      BY <1>4, <2>2, MovedFrom, Zenon DEF Replay, Phases
    <2> QED
      BY <1>4, <2>1, <2>3, AnsweredInv, Zenon DEF Replay
  <1>5. CASE Apply(c)
    <2>1. Moved(c) /\ call'[c].phase = "applied" /\ call'[c].reply = call[c].reply
      BY <1>5, PhaseMoved, Zenon DEF Apply, Phases
    <2>2. call[c].phase = "reserved" /\ UNCHANGED <<fact, row, writer, effects, calls>>
      BY <1>5, Zenon DEF Apply
    <2>3. TypeOK' /\ CallsNumbered'
      BY <2>1, <2>2, Zenon DEF LedgerInv, TypeOK, CallsNumbered, Moved
    <2>4. HashesTell' /\ EffectOnce' /\ ResponseIsAnEffect'
      BY <2>1, <2>2, RowsUntouched, Zenon
    <2>5. WriterIsRunning'
      BY <2>1, <2>2 DEF LedgerInv, TypeOK, WriterIsRunning, Moved
    <2>6. ReservationHeld' /\ RowFound' /\ RepliesAgree'
      BY SMTT(30), <2>1, <2>2 DEF LedgerInv, ReservationHeld, RowFound, RepliesAgree, Moved
    <2> QED
      BY <2>3, <2>4, <2>5, <2>6, Zenon DEF LedgerInv
  <1>6. CASE Commit(c)
    BY <1>6, CommitInv, Zenon
  <1>7. CASE Reply(c)
    <2>1. call[c].phase = "committed" /\ UNCHANGED <<fact, row, writer, effects, calls>>
      BY <1>7, Zenon DEF Reply
    <2>2. call[c].id \in 1..MaxCalls
      BY <2>1, Zenon DEF LedgerInv, CallsNumbered
    <2>3. Moved(c) /\ call'[c].phase = "idle" /\ call'[c].reply = call[c].id
      BY <1>7, <2>2, MovedFrom, Zenon DEF Reply, Phases
    <2>4. TypeOK' /\ CallsNumbered'
      BY <2>1, <2>3, Zenon DEF LedgerInv, TypeOK, CallsNumbered, Moved
    <2>5. HashesTell' /\ EffectOnce' /\ ResponseIsAnEffect'
      BY <2>1, <2>3, RowsUntouched, Zenon
    <2>6. WriterIsRunning'
      BY <2>1, <2>3 DEF LedgerInv, TypeOK, WriterIsRunning, Moved
    <2>7. ReservationHeld' /\ RowFound'
      BY <2>1, <2>3 DEF LedgerInv, ReservationHeld, RowFound, Moved
    <2>8. RepliesAgree'
      BY <2>1, <2>3 DEF LedgerInv, RowFound, RepliesAgree, Moved
    <2> QED
      BY <2>4, <2>5, <2>6, <2>7, <2>8, Zenon DEF LedgerInv
  <1> QED
    BY <1>1, <1>2, <1>3, <1>4, <1>5, <1>6, <1>7, Zenon DEF Serve

(* Every step keeps the invariant. *)
LEMMA LedgerNext == LedgerInv /\ [Next]_vars => LedgerInv'
  <1> SUFFICES ASSUME LedgerInv, [Next]_vars PROVE LedgerInv'
    BY Zenon
  <1>1. ASSUME NEW f \in Facts, ChangeFact(f) PROVE LedgerInv'
    BY <1>1, Zenon DEF ChangeFact, LedgerInv, TypeOK, CallsNumbered, HashesTell, WriterIsRunning,
                ReservationHeld, RowFound, EffectOnce, RepliesAgree, ResponseIsAnEffect
  <1>2. ASSUME NEW c \in Clients, NEW k \in Keys, NEW req \in Requests, Call(c, k, req)
        PROVE  LedgerInv'
    BY <1>2, CallInv, Zenon
  <1>3. ASSUME NEW c \in Clients, Serve(c) PROVE LedgerInv'
    BY <1>3, ServeInv, Zenon
  <1>4. ASSUME NEW c \in Clients, Fail(c) PROVE LedgerInv'
    BY <1>4, FailInv, Zenon
  <1>5. CASE UNCHANGED vars
    BY <1>5, Zenon DEF vars, LedgerInv, TypeOK, CallsNumbered, HashesTell, WriterIsRunning,
                ReservationHeld, RowFound, EffectOnce, RepliesAgree, ResponseIsAnEffect
  <1> QED
    BY <1>1, <1>2, <1>3, <1>4, <1>5, Zenon DEF Next

(* The invariant holds in every state the calls reach. *)
THEOREM LedgerInvariance == Spec => []LedgerInv
  BY LedgerInit, LedgerNext, PTL DEF Spec

(* A replaying command takes effect at most once per key however often it is
   sent, and whoever is answered with an outcome gets the recorded one
   (reserveCommandRequest, completeCommandRequestResponse).                *)
THEOREM CommandsTakeEffectOnce == Spec => [](EffectOnce /\ RepliesAgree)
  BY LedgerInvariance, PTL DEF LedgerInv

(* A failed call never blocks a retry: a key that is being written is written
   by a call that still runs.  And the response of a gate or preview is one
   of its results.                                                         *)
THEOREM WritersRun == Spec => [](WriterIsRunning /\ ResponseIsAnEffect)
  BY LedgerInvariance, PTL DEF LedgerInv

-----------------------------------------------------------------------------
(* Only a commit writes a row, and the first row of a replaying key is the
   last.                                                                   *)
LEMMA RowsWrittenOnce ==
    ASSUME LedgerInv, [Next]_vars, NEW k \in GuardedKeys, row[k] # NoRow
    PROVE  row'[k] = row[k]
  <1>1. ASSUME NEW c \in Clients, Commit(c) PROVE row'[k] = row[k]
    <2>1. call[c].phase = "applied" /\ call[c].key \in Keys
      BY <1>1, Zenon DEF Commit, LedgerInv, TypeOK, Calls
    <2>2. call[c].key # k
      BY <2>1, Zenon DEF LedgerInv, ReservationHeld
    <2> QED
      BY <1>1, <2>1, <2>2, Zenon DEF Commit, LedgerInv, TypeOK, Keys
  <1>2. ASSUME NEW c \in Clients, Serve(c), ~Commit(c) PROVE UNCHANGED row
    BY <1>2, Zenon DEF Serve, ReserveNew, ReserveExisting, ReserveConflict, Replay, Apply, Reply
  <1> QED
    BY <1>1, <1>2, Zenon DEF Next, vars, ChangeFact, Call, Fail

(* The recorded outcome of a replaying command is never rewritten: no later
   call, retry or failure touches it.                                      *)
THEOREM OutcomesStand == Spec => OutcomeNeverRewritten
  <1>1. LedgerInv /\ [Next]_vars
          => [\A k \in GuardedKeys : row[k] # NoRow => row'[k] = row[k]]_vars
    BY RowsWrittenOnce, Zenon
  <1> QED
    BY LedgerInvariance, <1>1, PTL DEF Spec, OutcomeNeverRewritten

-----------------------------------------------------------------------------
(* The abstract ledger, asked and answer, seen through the rows and calls. *)
LedgerOf ==
    [k \in GuardedKeys \cup {OtherKey} |->
        IF k = OtherKey \/ row[k] = NoRow THEN NoOutcome
        ELSE [req |-> Asking(row[k]), out |-> row[k].response]]

AskedOf ==
    [c \in Clients |->
        [key |-> IF Replaying(c) THEN call[c].key ELSE OtherKey, req |-> Asking(call[c])]]

AnswerOf == [c \in Clients |-> IF Replaying(c) THEN call[c].reply ELSE NoReply]

(* A new ledger is a new abstract ledger. *)
LEMMA LedgerInitImplements == Init => Ledger!Init
  <1> SUFFICES ASSUME Init PROVE Ledger!Init
    BY Zenon
  <1>1. PICK k \in Keys, req \in Requests :
          call = [c \in Clients |->
                    [phase |-> "idle", id |-> 0, key |-> k, req |-> req,
                     about |-> NoFact, hash |-> <<req, NoFact>>, reply |-> NoReply]]
    BY Zenon DEF Init
  <1>2. LedgerOf = [k1 \in GuardedKeys \cup {OtherKey} |-> NoOutcome]
    BY Zenon DEF Init, LedgerOf, Keys
  <1>3. AskedOf \in [Clients -> Ledger!Asked]
    <2>1. \A c \in Clients : Asking(call[c]) \in Hashes
      BY <1>1, NoFactIsOne, Zenon DEF Init, Asking, Hashes
    <2> QED
      BY <1>1, <2>1, Zenon DEF AskedOf, Ledger!Asked, Replaying
  <1>4. AnswerOf = [c \in Clients |-> NoReply]
    BY <1>1, Zenon DEF AnswerOf, Replaying
  <1> QED
    BY <1>2, <1>3, <1>4, Zenon DEF Ledger!Init, LedgerOf, AskedOf, AnswerOf

(* A call begins: the client asks, and has no answer yet. *)
LEMMA CallAsks ==
    ASSUME LedgerInv, NEW c \in Clients, NEW k \in Keys, NEW req \in Requests,
           Call(c, k, req)
    PROVE  Ledger!Ask(c)
  <1> DEFINE about == IF k \in FactKeys THEN fact ELSE NoFact
             what == <<req, about>>
             a == [key |-> IF k \in GuardedKeys THEN k ELSE OtherKey, req |-> what]
  <1>1. a \in Ledger!Asked
    <2>1. about \in Facts
      BY NoFactIsOne, Zenon DEF LedgerInv, TypeOK
    <2>2. what \in Hashes
      BY <2>1, Zenon DEF Hashes
    <2> QED
      BY <2>2, Zenon DEF Ledger!Asked
  <1> HIDE DEF about, what
  <1>2. /\ call' \in [Clients -> Calls]
        /\ \A d \in Clients \ {c} : call'[d] = call[d]
        /\ call'[c].key = k /\ call'[c].reply = NoReply
        /\ call'[c].req = req /\ call'[c].about = about
        /\ UNCHANGED row
    BY CallInv, Zenon DEF Call, LedgerInv, TypeOK, about
  <1>3. AskedOf' = [AskedOf EXCEPT ![c] = a]
    <2>1. Asking(call'[c]) = what
      BY <1>2, Zenon DEF Asking, what
    <2>2. AskedOf'[c] = a
      BY <1>2, <2>1, Zenon DEF AskedOf, Replaying
    <2>3. \A d \in Clients \ {c} : AskedOf'[d] = AskedOf[d]
      BY <1>2, Zenon DEF AskedOf, Replaying
    <2> HIDE DEF a
    <2> QED
      BY <2>2, <2>3, Zenon DEF AskedOf
  <1>4. AnswerOf' = [AnswerOf EXCEPT ![c] = NoReply]
    BY <1>2, Zenon DEF AnswerOf, Replaying
  <1>5. LedgerOf' = LedgerOf
    BY <1>2, Zenon DEF LedgerOf
  <1> QED
    BY <1>1, <1>3, <1>4, <1>5, Zenon DEF Ledger!Ask, LedgerOf, AskedOf, AnswerOf

(* A step that moves no row and no reply is not seen by the callers. *)
LEMMA UnseenStep ==
    ASSUME LedgerInv, NEW c \in Clients, Moved(c),
           \/ call'[c].reply = call[c].reply
           \/ call[c].key \notin GuardedKeys,
           \A k \in GuardedKeys : row'[k] = row[k]
    PROVE  UNCHANGED <<LedgerOf, AskedOf, AnswerOf>>
  <1>1. AskedOf' = AskedOf
    BY Zenon DEF AskedOf, Moved, Replaying
  <1>2. AnswerOf' = AnswerOf
    BY Zenon DEF AnswerOf, Moved, Replaying
  <1>3. LedgerOf' = LedgerOf
    BY LedgerAssumption, Zenon DEF LedgerOf
  <1> QED
    BY <1>1, <1>2, <1>3, Zenon

(* The commit of a replaying command is its one execution; that of a gate or
   preview is not seen.                                                    *)
LEMMA CommitExecutes ==
    ASSUME LedgerInv, NEW c \in Clients, Commit(c)
    PROVE  Ledger!Execute(c) \/ UNCHANGED <<LedgerOf, AskedOf, AnswerOf>>
  <1> DEFINE k == call[c].key
             new == [req |-> call[c].req, about |-> call[c].about, hash |-> call[c].hash,
                     response |-> call[c].id]
             executed == [req |-> Asking(call[c]), out |-> call[c].id]
  <1>1. /\ k \in Keys
        /\ call[c].phase = "applied"
        /\ row' = [row EXCEPT ![k] = new]
    BY Zenon DEF Commit, LedgerInv, TypeOK, Calls
  <1>2. Moved(c) /\ call'[c].reply = call[c].reply
    BY PhaseMoved, Zenon DEF Commit, Phases
  <1>3. CASE k \notin GuardedKeys
    BY <1>1, <1>2, <1>3, UnseenStep, Zenon DEF LedgerInv, TypeOK, Keys
  <1>4. CASE k \in GuardedKeys
    <2>1. row[k] = NoRow /\ call[c].id \in 1..MaxCalls
      BY <1>1, <1>4, Zenon DEF LedgerInv, ReservationHeld, CallsNumbered
    <2>2. new # NoRow /\ Asking(new) = Asking(call[c]) /\ new.response = call[c].id
      BY <2>1, LedgerAssumption DEF LedgerInv, TypeOK, Calls, Hashes, Asking
    <2>3. AskedOf' = AskedOf /\ AnswerOf' = AnswerOf
      BY <1>2, Zenon DEF AskedOf, AnswerOf, Moved, Replaying
    <2>4. AskedOf[c].key = k /\ AskedOf[c].req = Asking(call[c])
      BY <1>4, Zenon DEF AskedOf, Replaying
    <2>5. LedgerOf[k] = NoOutcome
      BY <1>4, <2>1, Zenon DEF LedgerOf
    <2>6. LedgerOf' = [LedgerOf EXCEPT ![k] = executed]
      <3> HIDE DEF new
      <3>1. \A j \in GuardedKeys : row'[j] = IF j = k THEN new ELSE row[j]
        BY <1>1, <1>4, Zenon DEF LedgerInv, TypeOK, Keys
      <3>2. k # OtherKey
        BY <1>4, LedgerAssumption, Zenon
      <3> QED
        BY <1>4, <2>2, <3>1, <3>2, Zenon DEF LedgerOf
    <2> QED
      BY <2>1, <2>3, <2>4, <2>5, <2>6, Zenon DEF Ledger!Execute, LedgerOf, AskedOf, AnswerOf
  <1> QED
    BY <1>3, <1>4, Zenon

(* A replaying command is answered from the row of its key: with the outcome
   if the requests agree, with a conflict if not.                          *)
LEMMA RowAnswers ==
    ASSUME LedgerInv, NEW c \in Clients, Moved(c), UNCHANGED row,
           call[c].key \in GuardedKeys, row[call[c].key] # NoRow,
           call'[c].reply = IF Asking(row[call[c].key]) = Asking(call[c])
                              THEN row[call[c].key].response ELSE Conflict
    PROVE  Ledger!Answer(c)
  <1> DEFINE k == call[c].key
             found == [req |-> Asking(row[k]), out |-> row[k].response]
  <1>1. k # OtherKey
    BY LedgerAssumption, Zenon
  <1>2. found # NoOutcome
    BY LedgerAssumption DEF LedgerInv, TypeOK, Rows, Keys, Asking, Hashes
  <1>3. LedgerOf[k] = found /\ found.req = Asking(row[k]) /\ found.out = row[k].response
    BY <1>1, Zenon DEF LedgerOf
  <1>4. AskedOf[c].key = k /\ AskedOf[c].req = Asking(call[c])
    BY Zenon DEF AskedOf, Replaying
  <1>5. LedgerOf' = LedgerOf /\ AskedOf' = AskedOf
    BY Zenon DEF LedgerOf, AskedOf, Moved, Replaying
  <1>6. AnswerOf' = [AnswerOf EXCEPT ![c] =
                       IF Asking(row[k]) = Asking(call[c]) THEN row[k].response ELSE Conflict]
    BY Zenon DEF AnswerOf, Moved, Replaying
  <1> HIDE DEF found
  <1>7. AnswerOf' = [AnswerOf EXCEPT ![c] =
                       IF LedgerOf[AskedOf[c].key].req = AskedOf[c].req
                         THEN LedgerOf[AskedOf[c].key].out ELSE Conflict]
    BY <1>3, <1>4, <1>6, Zenon
  <1>8. LedgerOf[AskedOf[c].key] # NoOutcome
    BY <1>2, <1>3, <1>4, Zenon
  <1> QED
    BY <1>5, <1>7, <1>8, Zenon DEF Ledger!Answer, LedgerOf, AskedOf, AnswerOf

(* Every step of a call is a step of the abstract ledger, or is not seen. *)
LEMMA ServeImplements ==
    ASSUME LedgerInv, NEW c \in Clients, Serve(c)
    PROVE  \/ Ledger!Execute(c) \/ Ledger!Answer(c)
           \/ UNCHANGED <<LedgerOf, AskedOf, AnswerOf>>
  <1> DEFINE k == call[c].key
  <1>1. CASE ReserveNew(c) \/ ReserveExisting(c) \/ Apply(c)
    <2>1. PICK phase \in Phases : call' = [call EXCEPT ![c].phase = phase]
      BY <1>1, Zenon DEF ReserveNew, ReserveExisting, Apply, Phases
    <2>2. UNCHANGED row
      BY <1>1, Zenon DEF ReserveNew, ReserveExisting, Apply
    <2> QED
      BY <2>1, <2>2, PhaseMoved, UnseenStep, Zenon
  <1>2. CASE ReserveConflict(c)
    <2>1. Moved(c) /\ call'[c].reply = Conflict /\ UNCHANGED row
      BY <1>2, MovedFrom, Zenon DEF ReserveConflict, Phases
    <2>2. row[k] # NoRow /\ row[k].hash # call[c].hash
      BY <1>2, Zenon DEF ReserveConflict, HashMatches
    <2>3. k \in GuardedKeys => Asking(row[k]) # Asking(call[c])
      BY <2>2, Zenon DEF LedgerInv, HashesTell
    <2> QED
      BY <2>1, <2>2, <2>3, RowAnswers, UnseenStep, Zenon
  <1>3. CASE Replay(c)
    <2>1. /\ k \in GuardedKeys
          /\ row[k] # NoRow
          /\ Asking(row[k]) = Asking(call[c])
      BY <1>3, Zenon DEF Replay, LedgerInv, RowFound
    <2>2. row[k].response \in 1..MaxCalls
      BY <2>1, Zenon DEF LedgerInv, TypeOK, Rows, Keys
    <2>3. Moved(c) /\ call'[c].reply = row[k].response /\ UNCHANGED row
      BY <1>3, <2>2, MovedFrom, Zenon DEF Replay, Phases
    <2> QED
      BY <2>1, <2>3, RowAnswers, Zenon
  <1>4. CASE Commit(c)
    BY <1>4, CommitExecutes, Zenon
  <1>5. CASE Reply(c)
    <2>1. call[c].phase = "committed" /\ call[c].id \in 1..MaxCalls
      BY <1>5, Zenon DEF Reply, LedgerInv, CallsNumbered
    <2>2. Moved(c) /\ call'[c].reply = call[c].id /\ UNCHANGED row
      BY <1>5, <2>1, MovedFrom, Zenon DEF Reply, Phases
    <2>3. k \in GuardedKeys => /\ row[k] # NoRow
                               /\ Asking(row[k]) = Asking(call[c])
                               /\ row[k].response = call[c].id
      BY <2>1, Zenon DEF LedgerInv, RowFound
    <2> QED
      BY <2>2, <2>3, RowAnswers, UnseenStep, Zenon
  <1> QED
    BY <1>1, <1>2, <1>3, <1>4, <1>5, Zenon DEF Serve

(* Every step implements a step of the abstract ledger or a stutter. *)
LEMMA LedgerStepImplements ==
    LedgerInv /\ [Next]_vars => [Ledger!Next]_<<LedgerOf, AskedOf, AnswerOf>>
  <1> SUFFICES ASSUME LedgerInv, [Next]_vars
               PROVE  [Ledger!Next]_<<LedgerOf, AskedOf, AnswerOf>>
    BY Zenon
  <1>1. ASSUME NEW c \in Clients, NEW k \in Keys, NEW req \in Requests, Call(c, k, req)
        PROVE  Ledger!Next
    BY <1>1, CallAsks, Zenon DEF Ledger!Next
  <1>2. ASSUME NEW c \in Clients, Serve(c)
        PROVE  Ledger!Next \/ UNCHANGED <<LedgerOf, AskedOf, AnswerOf>>
    BY <1>2, ServeImplements, Zenon DEF Ledger!Next
  <1>3. ASSUME NEW c \in Clients, Fail(c)
        PROVE  UNCHANGED <<LedgerOf, AskedOf, AnswerOf>>
    <2>1. Moved(c) /\ call'[c].reply = call[c].reply
      BY <1>3, PhaseMoved, Zenon DEF Fail, Phases
    <2> QED
      BY <1>3, <2>1, UnseenStep, Zenon DEF Fail
  <1>4. CASE UNCHANGED vars \/ \E f \in Facts : ChangeFact(f)
    BY <1>4, Zenon DEF vars, ChangeFact, LedgerOf, AskedOf, AnswerOf, Replaying
  <1> QED
    BY <1>1, <1>2, <1>3, <1>4, Zenon DEF Next

(* The transactions of the replaying commands implement the abstract ledger:
   executed at most once per key, one outcome per key, a conflict for any
   other request, whatever calls, failures and lost answers interleave.    *)
THEOREM LedgerRefinement == Spec => ImplementsIdempotentCommands
  <1>1. LedgerInv /\ [Next]_vars => [Ledger!Next]_<<LedgerOf, AskedOf, AnswerOf>>
    BY LedgerStepImplements, Zenon
  <1> QED
    BY LedgerInitImplements, LedgerInvariance, <1>1, PTL
       DEF Spec, ImplementsIdempotentCommands, Ledger!Spec, LedgerOf, AskedOf, AnswerOf

-----------------------------------------------------------------------------
(***************************************************************************)
(* Requests over the ledger.                                               *)
(***************************************************************************)

(* A request as the server holds it. *)
HttpFields == {"phase", "who", "route", "method", "scope", "owner", "id", "mine", "status"}

(* The request of a client has its fields, and a status once it is answered. *)
HttpShape(c) ==
    /\ DOMAIN http[c] = HttpFields
    /\ http[c].phase \in HttpPhases
    /\ http[c].route \in DOMAIN Routes
    /\ http[c].method \in Methods
    /\ http[c].status = 0 <=> http[c].phase # "answered"

(* Requests and calls are numbered in the order they come. *)
Numbered(c) ==
    /\ http[c].id \in 0..sends
    /\ http[c].phase # "idle" => http[c].id # 0
    /\ call[c].id \in 0..calls

(* A request is at its call exactly while the call runs, and remembers it. *)
Linked(c) ==
    /\ http[c].phase = "calling" <=> call[c].phase # "idle"
    /\ http[c].phase = "calling" => http[c].mine # 0
    /\ http[c].mine # 0 =>
         /\ call[c].id = http[c].mine
         /\ http[c].route = routeOf[call[c].key]
         /\ http[c].method = "POST"
         /\ Known(http[c].route, "POST")
    /\ http[c].phase \in {"writing", "written"} =>
         /\ http[c].mine = 0
         /\ Known(http[c].route, http[c].method)
         /\ KindOf(http[c].route, http[c].method) = "direct"

(* Before the commit there is no effect; after it there is. *)
Timely(c) ==
    /\ call[c].phase \notin {"idle", "committed"} =>
         \A k \in Keys : call[c].id \notin effects[k]
    /\ call[c].phase = "committed" => call[c].id \in effects[call[c].key]
    /\ http[c].phase \in {"calling", "writing"} => http[c].id \notin direct

(* A request that went on to write had passed the middleware and the checks
   on its run.                                                             *)
PassedChecks(h) ==
    /\ authMiddleware(h.who, h.route, h.method, h.scope) = {}
    /\ Visible(h.route, h.scope, h.owner)

(* The write of a client was earned. *)
Earned(c) ==
    \/ http[c].mine # 0
    \/ http[c].phase \in {"writing", "written"}
    \/ http[c].id \in direct
    => PassedChecks(http[c])

(* What StatusTellsEffect says of one client. *)
Tells(c) ==
    /\ http[c].phase = "answered"
    /\ Known(http[c].route, http[c].method)
    => SuccessTold(c) /\ CreationTold(c) /\ ErrorTold(c)

(* What is kept of each client. *)
ClientOK(c) ==
    /\ HttpShape(c) /\ Numbered(c) /\ Linked(c)
    /\ Timely(c) /\ Earned(c) /\ Tells(c)

(* No two clients have the same number. *)
Distinct(c, d) ==
    /\ call[c].id = call[d].id => call[c].id = 0
    /\ http[c].id = http[d].id => http[c].id = 0

(* Numbers on record were given out. *)
CountsOK ==
    /\ routeOf \in Routings
    /\ DOMAIN http = Clients
    /\ sends \in 0..MaxSends
    /\ denied \subseteq 1..calls
    /\ direct \subseteq 1..sends
    /\ \A k \in Keys : effects[k] \subseteq 1..calls

(* The inductive invariant of the requests over the ledger. *)
ServiceInv ==
    /\ LedgerInv
    /\ CountsOK
    /\ \A c \in Clients : ClientOK(c)
    /\ \A c, d \in Clients : c # d => Distinct(c, d)

-----------------------------------------------------------------------------
(* A step of the service is a step of the ledger or leaves it alone. *)
LEMMA ServiceStepsLedger == [ApiNext]_<<vars, apiVars>> => [Next]_vars
  <1> SUFFICES ASSUME ApiNext PROVE [Next]_vars
    BY Zenon DEF vars
  <1>1. ASSUME NEW f \in Facts, ChangeFact(f) PROVE Next
    BY <1>1, Zenon DEF Next
  <1>2. ASSUME NEW c \in Clients, NEW k \in Keys, NEW req \in Requests, Call(c, k, req)
        PROVE  Next
    BY <1>2, Zenon DEF Next
  <1>3. ASSUME NEW c \in Clients, ServeCommand(c) PROVE Next
    BY <1>3, Zenon DEF ServeCommand, Decide, Next, Serve
  <1>4. ASSUME NEW c \in Clients, FailCommand(c) PROVE Next
    BY <1>4, Zenon DEF FailCommand, Next
  <1>5. ASSUME NEW c \in Clients, WriteDirect(c) \/ AnswerDirect(c) PROVE UNCHANGED vars
    BY <1>5, Zenon DEF WriteDirect, AnswerDirect
  <1>6. ASSUME NEW c \in Clients, NEW who, NEW route, NEW method, NEW scope, NEW owner,
               \/ AnswerEarly(c, who, route, method, scope, owner)
               \/ BeginDirect(c, who, route, method, scope, owner)
        PROVE  UNCHANGED vars
    BY <1>6, Zenon DEF AnswerEarly, BeginDirect
  <1>7. ASSUME NEW c \in Clients, NEW who, NEW k, NEW req, NEW scope, NEW owner,
               BeginCommand(c, who, k, req, scope, owner)
        PROVE  Call(c, k, req)
    BY <1>7, Zenon DEF BeginCommand
  <1> QED
    BY <1>1, <1>2, <1>3, <1>4, <1>5, <1>6, <1>7 DEF ApiNext

(* The counters only grow. *)
Counted ==
    /\ sends \in Nat /\ sends' \in Nat /\ sends <= sends'
    /\ calls \in Nat /\ calls' \in Nat /\ calls <= calls'

(* A step leaves a client's request and call alone, and what it adds to the
   effects, the refusals and the writes carries another number.            *)
LeftAlone(d) ==
    /\ http'[d] = http[d] /\ call'[d] = call[d] /\ routeOf' = routeOf
    /\ \A k \in Keys :
         /\ effects[k] \subseteq effects'[k]
         /\ call[d].id # 0 /\ call[d].id \in effects'[k] => call[d].id \in effects[k]
    /\ denied \subseteq denied'
    /\ call[d].id # 0 /\ call[d].id \in denied' => call[d].id \in denied
    /\ direct \subseteq direct'
    /\ http[d].id \in direct' => http[d].id \in direct

(* The row of a replaying command is never replaced. *)
RowsStand == \A k \in GuardedKeys : row[k] # NoRow => row'[k] = row[k]

(* A client whose request and call a step leaves alone keeps what it has: the
   effects, refusals and writes that step adds carry another number, and the
   rows of replaying commands stand.                                       *)
LEMMA BystanderOK ==
    ASSUME ServiceInv, NEW d \in Clients, Counted, LeftAlone(d), RowsStand
    PROVE  ClientOK(d)'
  <1>0. ClientOK(d) /\ call[d].key \in Keys
    BY Zenon DEF ServiceInv, LedgerInv, TypeOK, Calls
  <1>a. http'[d] = http[d] /\ call'[d] = call[d] /\ routeOf' = routeOf
    BY Zenon DEF LeftAlone
  <1>1. HttpShape(d)' /\ Linked(d)'
    BY <1>0, <1>a, Zenon DEF ClientOK, HttpShape, Linked
  <1>2. Numbered(d)'
    BY <1>0, <1>a DEF ClientOK, Numbered, Counted
  <1>3. call[d].phase # "idle" => call[d].id # 0
    BY DEF ServiceInv, LedgerInv, CallsNumbered
  <1>4. Timely(d)'
    BY <1>0, <1>3, Zenon DEF ClientOK, Timely, LeftAlone
  <1>5. Earned(d)'
    BY <1>0, Zenon DEF ClientOK, Earned, LeftAlone
  <1>6. http[d].mine # 0 => http[d].mine = call[d].id
    BY <1>0, Zenon DEF ClientOK, Linked
  <1>7. TookEffect(d)' <=> TookEffect(d)
    BY <1>0, <1>6, Zenon DEF TookEffect, LeftAlone
  <1>8. http[d].mine # 0 => (http[d].mine \in denied' <=> http[d].mine \in denied)
    BY <1>6, Zenon DEF LeftAlone
  <1>9. http[d].mine # 0 /\ AnswersOf(d).kind = "command" => call[d].key \in GuardedKeys
    <2> SUFFICES ASSUME http[d].mine # 0, AnswersOf(d).kind = "command"
                 PROVE  call[d].key \in GuardedKeys
      BY Zenon
    <2>1. routeOf[call[d].key] \in DOMAIN Routes /\ KindOf(routeOf[call[d].key], "POST") = "command"
      BY <1>0, Zenon DEF ClientOK, Linked, HttpShape, AnswersOf, KindOf
    <2> QED
      BY <2>1, <1>0, Zenon DEF ServiceInv, CountsOK, Routings, CommandRoutes
  <1>10. AnswersOf(d)' = AnswersOf(d)
    BY <1>a, Zenon DEF AnswersOf
  <1>11. Tells(d)'
    <2>1. denied \subseteq denied'
      BY Zenon DEF LeftAlone
    <2>2. /\ Tells(d)
          /\ http[d].mine # 0 /\ AnswersOf(d).kind = "command" /\ row[call[d].key] # NoRow =>
               row'[call[d].key] = row[call[d].key]
      BY <1>0, <1>9, Zenon DEF ClientOK, RowsStand
    <2>3. SuccessTold(d) => SuccessTold(d)'
      BY <1>a, <1>10, <2>2, Zenon DEF SuccessTold
    <2>4. CreationTold(d) => CreationTold(d)'
      BY <1>a, <1>7, <1>8, <1>10, Zenon DEF CreationTold
    <2>5. ErrorTold(d) => ErrorTold(d)'
      BY <1>a, <1>7, <2>1, Zenon DEF ErrorTold
    <2> QED
      BY <1>a, <2>2, <2>3, <2>4, <2>5, Zenon DEF Tells
  <1> QED
    BY <1>1, <1>2, <1>4, <1>5, <1>11, Zenon DEF ClientOK

(* A step of one client: the others' requests and calls stay as they are, and
   an effect, a refusal or a write it adds carries this client's number.   *)
ActsAlone(c) ==
    /\ \A d \in Clients \ {c} : http'[d] = http[d] /\ call'[d] = call[d]
    /\ DOMAIN http' = Clients
    /\ routeOf' = routeOf
    /\ sends' \in {sends, sends + 1} /\ sends' <= MaxSends
    /\ calls' \in {calls, calls + 1}
    /\ \A k \in Keys :
         \/ effects'[k] = effects[k]
         \/ effects'[k] = effects[k] \cup {call[c].id} /\ call[c].id # 0
    /\ \/ denied' = denied
       \/ denied' = denied \cup {call[c].id} /\ call[c].id # 0
    /\ \/ direct' = direct
       \/ direct' = direct \cup {http[c].id} /\ http[c].id # 0
    /\ \/ call'[c].id = call[c].id
       \/ calls' = calls + 1 /\ call'[c].id = calls'
    /\ \/ http'[c].id = http[c].id
       \/ sends' = sends + 1 /\ http'[c].id = sends'

(* So it is enough to look at the client that acts. *)
LEMMA OneClientActs ==
    ASSUME ServiceInv, [Next]_vars, NEW c \in Clients, ActsAlone(c), ClientOK(c)'
    PROVE  ServiceInv'
  <1>1. LedgerInv'
    BY LedgerNext, Zenon DEF ServiceInv
  <1>2. RowsStand
    BY RowsWrittenOnce, Zenon DEF ServiceInv, RowsStand
  <1>3. Counted
    BY LedgerAssumption, SendsAssumption
       DEF Counted, ServiceInv, CountsOK, ActsAlone, LedgerInv, TypeOK
  <1>4. \A d \in Clients : call[d].id \in 0..calls /\ http[d].id \in 0..sends
    BY Zenon DEF ServiceInv, ClientOK, Numbered
  <1>5. CountsOK'
    <2>1. routeOf' \in Routings /\ DOMAIN http' = Clients /\ sends' \in 0..MaxSends
      BY <1>3, SendsAssumption DEF Counted, ServiceInv, CountsOK, ActsAlone
    <2>a. 1..calls \subseteq 1..calls' /\ 1..sends \subseteq 1..sends'
      BY <1>3 DEF Counted
    <2>b. /\ call[c].id # 0 => call[c].id \in 1..calls'
          /\ http[c].id # 0 => http[c].id \in 1..sends'
      BY <1>3, <1>4 DEF Counted
    <2>c. /\ denied \subseteq 1..calls /\ direct \subseteq 1..sends
          /\ \A k \in Keys : effects[k] \subseteq 1..calls
      BY Zenon DEF ServiceInv, CountsOK
    <2>2. denied' \subseteq 1..calls'
      BY <2>a, <2>b, <2>c, Zenon DEF ActsAlone
    <2>3. direct' \subseteq 1..sends'
      BY <2>a, <2>b, <2>c, Zenon DEF ActsAlone
    <2>4. \A k \in Keys : effects'[k] \subseteq 1..calls'
      BY <2>a, <2>b, <2>c, ZenonT(30) DEF ActsAlone
    <2>5. Routings' = Routings
      BY Zenon DEF Routings, CommandRoutes, EvaluationRoutes, KindOf, OpOf
    <2> QED
      BY <2>1, <2>2, <2>3, <2>4, <2>5, Zenon DEF CountsOK
  <1>6. ASSUME NEW d \in Clients, d # c PROVE ClientOK(d)' /\ Distinct(c, d)' /\ Distinct(d, c)'
    <2>1. Distinct(c, d) /\ Distinct(d, c)
      BY <1>6, Zenon DEF ServiceInv
    <2>2. http'[d] = http[d] /\ call'[d] = call[d] /\ routeOf' = routeOf
      BY <1>6, Zenon DEF ActsAlone
    <2>3. \A k \in Keys :
            /\ effects[k] \subseteq effects'[k]
            /\ call[d].id # 0 /\ call[d].id \in effects'[k] => call[d].id \in effects[k]
      BY <2>1, Zenon DEF ActsAlone, Distinct
    <2>4. /\ denied \subseteq denied'
          /\ call[d].id # 0 /\ call[d].id \in denied' => call[d].id \in denied
          /\ direct \subseteq direct'
          /\ http[d].id \in direct' => http[d].id \in direct
      BY <2>1, Zenon DEF ActsAlone, Distinct
    <2>5. ClientOK(d)'
      <3>1. LeftAlone(d)
        BY <2>2, <2>3, <2>4, Zenon DEF LeftAlone
      <3> QED
        BY <1>2, <1>3, <3>1, BystanderOK, Zenon
    <2>6. Distinct(c, d)' /\ Distinct(d, c)'
      BY <1>3, <1>4, <2>1, <2>2 DEF Counted, ActsAlone, Distinct
    <2> QED
      BY <2>5, <2>6, Zenon
  <1>7. ASSUME NEW d \in Clients, NEW e \in Clients, d # e PROVE Distinct(d, e)'
    <2>1. CASE d = c \/ e = c
      BY <1>6, <1>7, <2>1, Zenon
    <2>2. CASE d # c /\ e # c
      BY <1>7, <2>2 DEF ServiceInv, ActsAlone, Distinct
    <2> QED
      BY <2>1, <2>2, Zenon
  <1> QED
    BY <1>1, <1>5, <1>6, <1>7, Zenon DEF ServiceInv

-----------------------------------------------------------------------------
(* What the statuses the service gives itself mean. *)
LEMMA StatusMeanings ==
    /\ Succeeds(StatusCreated) /\ ~Rejects(StatusInternalError)
    /\ ~Succeeds(StatusConflict) /\ StatusConflict # StatusCreated /\ StatusOK # StatusCreated
    /\ StatusConflict # 0 /\ StatusMethodNotAllowed # 0 /\ StatusNotFound # 0
    /\ StatusBadRequest # 0 /\ StatusTooLarge # 0 /\ StatusTooManyRequests # 0
    /\ StatusUnauthorized # 0 /\ StatusForbidden # 0
  BY DEF Succeeds, Rejects, StatusOK, StatusCreated, StatusConflict, StatusInternalError,
         StatusMethodNotAllowed, StatusNotFound, StatusBadRequest, StatusTooLarge,
         StatusTooManyRequests, StatusUnauthorized, StatusForbidden

(* What the tables say of one operation. *)
LEMMA TableFacts ==
    ASSUME NEW route \in DOMAIN Routes, NEW method \in Methods, Known(route, method), NEW op,
           op = OpOf(route, method)
    PROVE  /\ 0 \notin op.named /\ 0 \notin op.answers.refused /\ 0 \notin op.answers.refound
           /\ op.other # 0 /\ op.answers.made # 0 /\ op.answers.found # 0
           /\ op.answers.kind # "read" => ~Rejects(op.answers.made)
           /\ op.answers.kind \in {"command", "evaluation"} =>
                /\ \A s \in op.named \cup {op.other} : ~Succeeds(s)
                /\ StatusCreated \notin op.answers.refused /\ StatusCreated \notin op.answers.refound
  <1>1. OpTells(op)
    BY RoutesAssumption, Zenon
  <1> QED
    BY <1>1, Zenon DEF OpTells

(* No request is answered with no status. *)
LEMMA EarlyStatusGiven ==
    ASSUME NEW who, NEW route \in DOMAIN Routes, NEW method \in Methods, NEW scope, NEW owner,
           NEW s \in securityMiddleware(route, method) \cup
                     (IF authMiddleware(who, route, method, scope) # {}
                      THEN authMiddleware(who, route, method, scope)
                      ELSE EarlyStatuses(route, method, scope, owner))
    PROVE  s # 0
  <1>1. 0 \notin securityMiddleware(route, method)
    BY StatusMeanings, Zenon DEF securityMiddleware
  <1>2. 0 \notin authMiddleware(who, route, method, scope)
    BY StatusMeanings, Zenon DEF authMiddleware
  <1>3. 0 \notin EarlyStatuses(route, method, scope, owner)
    <2> DEFINE checks == ChecksOf(route, method)
               failing == UNION {CheckStatus[checks[i]] : i \in 1..Len(checks)}
               op == OpOf(route, method)
    <2>1. \A i \in 1..Len(checks) : checks[i] \in DOMAIN CheckStatus
      BY RoutesAssumption, Zenon DEF ChecksOf
    <2>2. \A check \in DOMAIN CheckStatus : 0 \notin CheckStatus[check]
      BY RoutesAssumption, Zenon
    <2>3. 0 \notin failing
      BY <2>1, <2>2, Zenon
    <2>4. Known(route, method) => 0 \notin op.named /\ op.other # 0 /\ op.answers.made # 0
      BY TableFacts, Zenon
    <2> HIDE DEF failing, op
    <2>5. EarlyStatuses(route, method, scope, owner) =
            IF ~Known(route, method) THEN failing \cup {StatusMethodNotAllowed}
            ELSE IF ~Visible(route, scope, owner) THEN failing \cup {StatusNotFound}
            ELSE IF op.answers.kind = "read"
                 THEN failing \cup op.named \cup {op.other, op.answers.made}
            ELSE failing
      BY Zenon DEF EarlyStatuses, failing, op
    <2> QED
      BY <2>3, <2>4, <2>5, StatusMeanings, Zenon
  <1> QED
    BY <1>1, <1>2, <1>3, Zenon

(* A client that may send has no call running and takes a new number. *)
LEMMA FreeClient ==
    ASSUME ServiceInv, NEW c \in Clients, Free(c)
    PROVE  /\ call[c].phase = "idle"
           /\ sends \in Nat /\ sends + 1 <= MaxSends /\ sends + 1 \notin direct
           /\ calls \in Nat /\ call[c].id \in 0..calls /\ DOMAIN http = Clients
  BY SendsAssumption DEF ServiceInv, CountsOK, ClientOK, Linked, Numbered, Free, LedgerInv, TypeOK

(* A request that is not answered yet tells nothing. *)
LEMMA UnansweredTells ==
    ASSUME NEW c \in Clients, http'[c].phase # "answered" PROVE Tells(c)'
  BY Zenon DEF Tells

(* One that passed the checks has earned what it writes. *)
LEMMA ChecksEarn ==
    ASSUME NEW c \in Clients, PassedChecks(http'[c]) PROVE Earned(c)'
  BY Zenon DEF Earned

(* With no call running and no write going on, nothing is due yet. *)
LEMMA NothingDue ==
    ASSUME NEW c \in Clients, call'[c].phase = "idle",
           http'[c].phase \in {"calling", "writing"} => http'[c].id \notin direct'
    PROVE  Timely(c)'
  BY Zenon DEF Timely

(* A client sends: its request takes the next number, and its call too if it
   is a command.                                                           *)
SendsAlone(c) ==
    /\ DOMAIN http' = Clients
    /\ \A d \in Clients \ {c} : http'[d] = http[d] /\ call'[d] = call[d]
    /\ sends' = sends + 1 /\ http'[c].id = sends + 1
    /\ UNCHANGED <<routeOf, denied, direct, effects>>
    /\ \/ calls' = calls /\ call'[c].id = call[c].id
       \/ calls' = calls + 1 /\ call'[c].id = calls + 1

(* Such a step is one client's. *)
LEMMA SendingAlone ==
    ASSUME ServiceInv, NEW c \in Clients, Free(c), SendsAlone(c)
    PROVE  /\ ActsAlone(c) /\ Numbered(c)'
           /\ http'[c].id \notin direct'
  <1>1. /\ sends \in Nat /\ sends + 1 <= MaxSends /\ sends + 1 \notin direct
        /\ calls \in Nat /\ call[c].id \in 0..calls
    BY FreeClient, Zenon
  <1>2. /\ sends' <= MaxSends /\ http'[c].id \notin direct'
        /\ sends' \in {sends, sends + 1} /\ calls' \in {calls, calls + 1}
    BY <1>1, Zenon DEF SendsAlone
  <1>3. /\ \/ call'[c].id = call[c].id
           \/ calls' = calls + 1 /\ call'[c].id = calls'
        /\ sends' = sends + 1 /\ http'[c].id = sends'
    BY Zenon DEF SendsAlone
  <1>4. ActsAlone(c)
    BY <1>2, <1>3, Zenon DEF SendsAlone, ActsAlone
  <1>5. Numbered(c)'
    BY <1>1 DEF SendsAlone, Numbered
  <1> QED
    BY <1>2, <1>4, <1>5, Zenon

(* A client sends without a call: nothing of the ledger changes. *)
LEMMA SentOutside ==
    ASSUME ServiceInv, NEW c \in Clients, Free(c), NEW r, r.id = sends + 1,
           http' = [http EXCEPT ![c] = r], sends' = sends + 1,
           UNCHANGED <<routeOf, denied, direct>>, UNCHANGED vars
    PROVE  /\ SendsAlone(c) /\ http'[c] = r
           /\ call'[c].phase = "idle"
  <1>1. UNCHANGED <<call, calls, effects>>
    BY Zenon DEF vars
  <1>2. DOMAIN http = Clients /\ call[c].phase = "idle"
    BY FreeClient, Zenon
  <1>3. /\ DOMAIN http' = Clients /\ http'[c] = r
        /\ \A d \in Clients \ {c} : http'[d] = http[d]
    BY <1>2, Zenon
  <1> QED
    BY <1>1, <1>2, <1>3, Zenon DEF SendsAlone

(* A request answered by the middleware, by a check or as a read has no
   effect to tell of.                                                      *)
LEMMA AnswerEarlyOK ==
    ASSUME ServiceInv, NEW c \in Clients, NEW who, NEW route \in DOMAIN Routes,
           NEW method \in Methods, NEW scope, NEW owner,
           AnswerEarly(c, who, route, method, scope, owner)
    PROVE  ServiceInv'
  <1>1. Free(c) /\ sends' = sends + 1 /\ UNCHANGED <<routeOf, denied, direct>> /\ UNCHANGED vars
    BY Zenon DEF AnswerEarly
  <1>2. PICK s : /\ s # 0
                 /\ http' = [http EXCEPT ![c] =
                               [Received(c, who, route, method, scope, owner) EXCEPT
                                  !.phase = "answered", !.status = s]]
    BY EarlyStatusGiven, Zenon DEF AnswerEarly
  <1> DEFINE r == [Received(c, who, route, method, scope, owner) EXCEPT
                     !.phase = "answered", !.status = s]
  <1>3. /\ DOMAIN r = HttpFields /\ r.phase = "answered" /\ r.status = s
        /\ r.route = route /\ r.method = method /\ r.id = sends + 1 /\ r.mine = 0
    BY Zenon DEF Received, HttpFields
  <1>4. http' = [http EXCEPT ![c] = r]
    BY <1>2, Zenon
  <1> HIDE DEF r
  <1>5. SendsAlone(c) /\ http'[c] = r /\ call'[c].phase = "idle"
    BY <1>1, <1>3, <1>4, SentOutside, Zenon
  <1>6. ActsAlone(c) /\ Numbered(c)' /\ http'[c].id \notin direct'
    BY <1>1, <1>5, SendingAlone, Zenon
  <1>7. HttpShape(c)' /\ Linked(c)'
    <2>1. s # 0
      BY <1>2, Zenon
    <2>2. HttpShape(c)'
      BY <2>1, <1>3, <1>5, Zenon DEF HttpShape, HttpPhases
    <2> QED
      BY <2>2, <1>3, <1>5, Zenon DEF Linked
  <1>8. Timely(c)' /\ Earned(c)' /\ Tells(c)'
    <2>1. Timely(c)'
      BY <1>5, <1>6, NothingDue, Zenon
    <2>2. http'[c].mine = 0 /\ http'[c].phase = "answered"
      BY <1>3, <1>5, Zenon
    <2> QED
      BY <1>6, <2>1, <2>2, Zenon DEF Earned, Tells, SuccessTold, CreationTold, ErrorTold, TookEffect
  <1> QED
    BY <1>1, <1>6, <1>7, <1>8, OneClientActs, Zenon DEF ClientOK

(* A write outside the ledger begins. *)
LEMMA BeginDirectOK ==
    ASSUME ServiceInv, NEW c \in Clients, NEW who, NEW route \in DOMAIN Routes,
           NEW method \in Methods, NEW scope, NEW owner,
           BeginDirect(c, who, route, method, scope, owner)
    PROVE  ServiceInv'
  <1>1. /\ Free(c) /\ sends' = sends + 1 /\ UNCHANGED <<routeOf, denied, direct>> /\ UNCHANGED vars
        /\ authMiddleware(who, route, method, scope) = {}
        /\ Known(route, method) /\ Visible(route, scope, owner)
        /\ KindOf(route, method) = "direct"
    BY Zenon DEF BeginDirect, BeginWrite
  <1> DEFINE r == [Received(c, who, route, method, scope, owner) EXCEPT !.phase = "writing"]
  <1>2. http' = [http EXCEPT ![c] = r]
    BY Zenon DEF BeginDirect
  <1>3. /\ DOMAIN r = HttpFields /\ r.phase = "writing" /\ r.status = 0
        /\ r.who = who /\ r.route = route /\ r.method = method
        /\ r.scope = scope /\ r.owner = owner /\ r.id = sends + 1 /\ r.mine = 0
    BY Zenon DEF Received, HttpFields
  <1> HIDE DEF r
  <1>4. SendsAlone(c) /\ http'[c] = r /\ call'[c].phase = "idle"
    BY <1>1, <1>2, <1>3, SentOutside, Zenon
  <1>5. ActsAlone(c) /\ Numbered(c)' /\ http'[c].id \notin direct'
    BY <1>1, <1>4, SendingAlone, Zenon
  <1>6. HttpShape(c)' /\ Linked(c)'
    <2>1. HttpShape(c)'
      BY <1>3, <1>4, Zenon DEF HttpShape, HttpPhases
    <2> QED
      BY <2>1, <1>1, <1>3, <1>4, Zenon DEF Linked
  <1>7. Timely(c)' /\ Earned(c)' /\ Tells(c)'
    <2>1. PassedChecks(http'[c])
      BY <1>1, <1>3, <1>4, Zenon DEF PassedChecks
    <2>2. http'[c].phase # "answered"
      BY <1>3, <1>4, Zenon
    <2> QED
      BY <1>4, <1>5, <2>1, <2>2, NothingDue, ChecksEarn, UnansweredTells, Zenon
  <1> QED
    BY <1>1, <1>5, <1>6, <1>7, OneClientActs, Zenon DEF ClientOK

(* A command begins: its call takes the next number. *)
LEMMA BeginCommandOK ==
    ASSUME ServiceInv, NEW c \in Clients, NEW who, NEW k \in Keys, NEW req \in Requests,
           NEW scope, NEW owner, BeginCommand(c, who, k, req, scope, owner)
    PROVE  ServiceInv'
  <1> DEFINE route == routeOf[k]
  <1>0. route \in DOMAIN Routes /\ "POST" \in Methods
    BY Zenon DEF ServiceInv, CountsOK, Routings, CommandRoutes, EvaluationRoutes, Methods
  <1>1. /\ Free(c) /\ sends' = sends + 1 /\ UNCHANGED <<routeOf, denied, direct>>
        /\ authMiddleware(who, route, "POST", scope) = {}
        /\ Known(route, "POST") /\ Visible(route, scope, owner)
        /\ Call(c, k, req)
    BY Zenon DEF BeginCommand, BeginWrite
  <1> DEFINE r == [Received(c, who, route, "POST", scope, owner) EXCEPT !.mine = calls + 1]
  <1>2. http' = [http EXCEPT ![c] = r]
    BY Zenon DEF BeginCommand
  <1> HIDE DEF route
  <1>3. /\ DOMAIN r = HttpFields /\ r.phase = "calling" /\ r.status = 0
        /\ r.who = who /\ r.route = route /\ r.method = "POST"
        /\ r.scope = scope /\ r.owner = owner /\ r.id = sends + 1 /\ r.mine = calls + 1
    BY Zenon DEF Received, HttpFields
  <1> HIDE DEF r
  <1>4. /\ \A d \in Clients \ {c} : call'[d] = call[d]
        /\ call'[c].id = calls + 1 /\ call'[c].phase = "begun" /\ call'[c].key = k
        /\ calls' = calls + 1 /\ UNCHANGED <<row, effects>>
    BY <1>1, Zenon DEF Call, ServiceInv, LedgerInv, TypeOK
  <1>5. DOMAIN http = Clients /\ calls \in Nat
    BY <1>1, FreeClient, Zenon
  <1>6. http'[c] = r /\ SendsAlone(c)
    <2>1. /\ DOMAIN http' = Clients /\ http'[c] = r
          /\ \A d \in Clients \ {c} : http'[d] = http[d]
      BY <1>2, <1>5, Zenon
    <2> QED
      BY <2>1, <1>1, <1>3, <1>4, Zenon DEF SendsAlone
  <1>7. ActsAlone(c) /\ Numbered(c)' /\ http'[c].id \notin direct'
    BY <1>1, <1>6, SendingAlone, Zenon
  <1>8. HttpShape(c)'
    BY <1>0, <1>3, <1>6, Zenon DEF HttpShape, HttpPhases
  <1>9. Linked(c)'
    <2>1. calls + 1 # 0
      BY <1>5
    <2>2. routeOf'[k] = route
      BY <1>1, Zenon DEF route
    <2> QED
      BY <2>1, <2>2, <1>1, <1>3, <1>4, <1>6, Zenon DEF Linked
  <1>10. Timely(c)'
    <2>1. \A j \in Keys : calls + 1 \notin effects[j]
      BY <1>5 DEF ServiceInv, CountsOK
    <2> QED
      BY <2>1, <1>4, <1>7, Zenon DEF Timely
  <1>11. Earned(c)' /\ Tells(c)'
    <2>1. PassedChecks(http'[c])
      BY <1>1, <1>3, <1>6, Zenon DEF PassedChecks
    <2>2. http'[c].phase # "answered"
      BY <1>3, <1>6, Zenon
    <2> QED
      BY <2>1, <2>2, ChecksEarn, UnansweredTells, Zenon
  <1>12. [Next]_vars
    BY <1>1, Zenon DEF Next
  <1> QED
    BY <1>7, <1>8, <1>9, <1>10, <1>11, <1>12, OneClientActs, Zenon DEF ClientOK

-----------------------------------------------------------------------------
(* What is known of a request whose call runs. *)
Running(c) ==
    /\ call[c].phase # "idle" /\ call[c].key \in Keys
    /\ call[c].id = http[c].mine /\ http[c].mine # 0
    /\ http[c].route \in DOMAIN Routes /\ http[c].method \in Methods
    /\ Known(http[c].route, http[c].method)
    /\ AnswersOf(c).kind \in {"command", "evaluation"}
    /\ AnswersOf(c).kind = "command" => call[c].key \in GuardedKeys
    /\ http[c].id \notin direct
    /\ PassedChecks(http[c])

(* It follows from the invariant. *)
LEMMA RunningCall ==
    ASSUME ServiceInv, NEW c \in Clients, http[c].phase = "calling"
    PROVE  Running(c)
  <1>1. ClientOK(c) /\ call[c].key \in Keys
    BY Zenon DEF ServiceInv, LedgerInv, TypeOK, Calls
  <1>2. /\ call[c].phase # "idle" /\ call[c].id = http[c].mine /\ http[c].mine # 0
        /\ http[c].route = routeOf[call[c].key] /\ http[c].method = "POST"
        /\ Known(http[c].route, "POST")
    BY <1>1, Zenon DEF ClientOK, Linked
  <1>3. http[c].route \in DOMAIN Routes /\ http[c].method \in Methods
    BY <1>1, Zenon DEF ClientOK, HttpShape
  <1>4. http[c].id \notin direct /\ PassedChecks(http[c])
    BY <1>1, <1>2, Zenon DEF ClientOK, Timely, Earned
  <1>5. AnswersOf(c).kind = KindOf(routeOf[call[c].key], "POST")
    BY <1>2, Zenon DEF AnswersOf, KindOf
  <1>6. /\ routeOf[call[c].key] \in CommandRoutes \cup EvaluationRoutes
        /\ routeOf[call[c].key] \in CommandRoutes <=> call[c].key \in GuardedKeys
    BY <1>1, Zenon DEF ServiceInv, CountsOK, Routings
  <1> QED
    BY <1>1, <1>2, <1>3, <1>4, <1>5, <1>6, Zenon DEF Running, CommandRoutes, EvaluationRoutes

(* Of an answered request only the phase and the status change. *)
SameRequest(c) ==
    /\ DOMAIN http' = Clients
    /\ \A d \in Clients \ {c} : http'[d] = http[d]
    /\ DOMAIN http'[c] = HttpFields
    /\ http'[c].who = http[c].who /\ http'[c].route = http[c].route
    /\ http'[c].method = http[c].method /\ http'[c].scope = http[c].scope
    /\ http'[c].owner = http[c].owner
    /\ http'[c].id = http[c].id /\ http'[c].mine = http[c].mine

(* An answer sets the status and nothing else of the request. *)
LEMMA AnswerSays ==
    ASSUME ServiceInv, NEW c \in Clients, NEW s, Answer(c, s)
    PROVE  /\ SameRequest(c)
           /\ http'[c].phase = "answered" /\ http'[c].status = s
           /\ routeOf' = routeOf /\ sends' = sends
  <1>1. DOMAIN http = Clients /\ DOMAIN http[c] = HttpFields
    BY Zenon DEF ServiceInv, CountsOK, ClientOK, HttpShape
  <1> QED
    BY <1>1, Zenon DEF Answer, SameRequest, HttpFields

(* The request still is the one that passed the checks. *)
LEMMA SameChecks ==
    ASSUME NEW c \in Clients, SameRequest(c), PassedChecks(http[c])
    PROVE  PassedChecks(http'[c])
  BY Zenon DEF SameRequest, PassedChecks

(* A call ends and its request is answered. *)
CallEnds(c, s) ==
    /\ http[c].phase = "calling" /\ Answer(c, s)
    /\ UNCHANGED <<denied, direct>> /\ UNCHANGED <<row, effects, calls>>
    /\ Moved(c) /\ call'[c].phase = "idle"

(* The status fits the record: a success, "created", and an error below 500. *)
SuccessFits(c, s) ==
    AnswersOf(c).kind = "command" /\ Succeeds(s) =>
        /\ row[call[c].key] # NoRow
        /\ Asking(row[call[c].key]) = Asking(call[c])

CreationFits(c, s) ==
    AnswersOf(c).made = StatusCreated /\ AnswersOf(c).found = StatusOK /\ s = StatusCreated =>
        /\ call[c].id \in effects[call[c].key]
        /\ call[c].id \notin denied

ErrorFits(c, s) ==
    /\ Rejects(s)
    /\ OpOf(http[c].route, http[c].method).other = StatusInternalError
    /\ call[c].id \in effects[call[c].key]
    => call[c].id \in denied

StatusFits(c, s) ==
    s # 0 /\ SuccessFits(c, s) /\ CreationFits(c, s) /\ ErrorFits(c, s)

(* Then the answered request tells what became of its write. *)
LEMMA AnswerTells ==
    ASSUME NEW c \in Clients, NEW s, CallEnds(c, s), StatusFits(c, s), Running(c), SameRequest(c),
           http'[c].status = s
    PROVE  Tells(c)'
  <1>1. /\ call'[c].id = call[c].id /\ call'[c].key = call[c].key
        /\ Asking(call'[c]) = Asking(call[c])
        /\ UNCHANGED <<denied, direct>> /\ UNCHANGED <<row, effects>>
    BY Zenon DEF CallEnds, Moved
  <1>2. AnswersOf(c)' = AnswersOf(c)
        /\ OpOf(http'[c].route, http'[c].method) = OpOf(http[c].route, http[c].method)
    BY Zenon DEF AnswersOf, SameRequest
  <1>3. http'[c].mine = call[c].id /\ http'[c].id \notin direct
    BY Zenon DEF SameRequest, Running
  <1>4. TookEffect(c)' => call[c].id \in effects[call[c].key]
    BY <1>1, <1>3, Zenon DEF TookEffect
  <1>5. call[c].id \in effects[call[c].key] => TookEffect(c)'
    BY <1>1, <1>3, Zenon DEF TookEffect, Running
  <1>6. SuccessFits(c, s) /\ CreationFits(c, s) /\ ErrorFits(c, s)
    BY Zenon DEF StatusFits
  <1>7. SuccessTold(c)'
    BY <1>1, <1>2, <1>6, Zenon DEF SuccessTold, SuccessFits
  <1>8. CreationTold(c)'
    BY <1>1, <1>2, <1>3, <1>5, <1>6, Zenon DEF CreationTold, CreationFits
  <1>9. ErrorTold(c)'
    BY <1>1, <1>2, <1>3, <1>4, <1>6, Zenon DEF ErrorTold, ErrorFits
  <1> QED
    BY <1>7, <1>8, <1>9, Zenon DEF Tells

(* The status must fit the record. *)
LEMMA CallAnswered ==
    ASSUME ServiceInv, [Next]_vars, NEW c \in Clients, NEW s, CallEnds(c, s), StatusFits(c, s)
    PROVE  ServiceInv'
  <1>0. Answer(c, s) /\ Running(c) /\ s # 0
    BY RunningCall, Zenon DEF CallEnds, StatusFits
  <1>1. /\ SameRequest(c)
        /\ http'[c].phase = "answered" /\ http'[c].status = s
        /\ routeOf' = routeOf /\ sends' = sends
    BY <1>0, AnswerSays, Zenon
  <1>2. /\ call'[c].id = call[c].id /\ call'[c].key = call[c].key
        /\ \A d \in Clients \ {c} : call'[d] = call[d]
        /\ call'[c].phase = "idle"
        /\ UNCHANGED <<denied, direct>> /\ UNCHANGED <<row, effects, calls>>
    BY Zenon DEF Moved, CallEnds
  <1>3. ClientOK(c) /\ sends <= MaxSends
    BY SendsAssumption DEF ServiceInv, CountsOK
  <1>4. ActsAlone(c)
    BY <1>1, <1>2, <1>3, Zenon DEF ActsAlone, SameRequest
  <1>5. HttpShape(c)'
    BY <1>0, <1>1, Zenon DEF Running, HttpShape, SameRequest, HttpPhases
  <1>6. Numbered(c)'
    <2>1. Numbered(c) /\ http[c].id # 0
      BY <1>3, Zenon DEF ClientOK, Numbered, CallEnds
    <2>2. http'[c].id = http[c].id /\ sends' = sends /\ calls' = calls /\ call'[c].id = call[c].id
      BY <1>1, <1>2, Zenon DEF SameRequest
    <2> QED
      BY <2>1, <2>2, Zenon DEF Numbered
  <1>7. Linked(c)'
    BY <1>1, <1>2, <1>3, Zenon DEF ClientOK, Linked, SameRequest
  <1>8. Timely(c)'
    BY <1>1, <1>2, NothingDue, Zenon
  <1>9. Earned(c)'
    BY <1>0, <1>1, SameChecks, ChecksEarn, Zenon DEF Running
  <1>10. Tells(c)'
    BY <1>0, <1>1, AnswerTells, Zenon
  <1> QED
    BY <1>4, <1>5, <1>6, <1>7, <1>8, <1>9, <1>10, OneClientActs, Zenon DEF ClientOK

(* Before its commit a call has no effect. *)
LEMMA NotYet ==
    ASSUME ServiceInv, NEW c \in Clients, call[c].phase \notin {"idle", "committed"}
    PROVE  call[c].id \notin effects[call[c].key]
  <1>1. ClientOK(c) /\ call[c].key \in Keys
    BY Zenon DEF ServiceInv, LedgerInv, TypeOK, Calls
  <1> QED
    BY <1>1, Zenon DEF ClientOK, Timely

(* A call goes on in its transaction; only the commit has an effect. *)
GoesOn(c) ==
    /\ http[c].phase = "calling" /\ UNCHANGED <<routeOf, http, direct, sends, calls>>
    /\ Moved(c) /\ call'[c].phase # "idle"
    /\ \/ denied' = denied
       \/ denied' = denied \cup {call[c].id}
    /\ \/ /\ effects' = effects
          /\ call[c].phase # "committed" /\ call'[c].phase # "committed"
       \/ /\ effects' = [effects EXCEPT ![call[c].key] = @ \cup {call[c].id}]
          /\ call'[c].phase = "committed"

(* That keeps the invariant. *)
LEMMA CallGoesOn ==
    ASSUME ServiceInv, [Next]_vars, NEW c \in Clients, GoesOn(c)
    PROVE  ServiceInv'
  <1>0. http[c].phase = "calling" /\ UNCHANGED <<routeOf, http, direct, sends, calls>>
        /\ call'[c].phase # "idle"
    BY Zenon DEF GoesOn
  <1>1. /\ call[c].phase # "idle" /\ call[c].key \in Keys
        /\ call[c].id = http[c].mine /\ http[c].mine # 0
        /\ http[c].id \notin direct /\ PassedChecks(http[c])
    BY <1>0, RunningCall, Zenon DEF Running
  <1>2. /\ call'[c].id = call[c].id /\ call'[c].key = call[c].key
        /\ \A d \in Clients \ {c} : call'[d] = call[d]
    BY Zenon DEF Moved, GoesOn
  <1>3. ClientOK(c) /\ sends <= MaxSends /\ DOMAIN http = Clients /\ DOMAIN effects = Keys
    BY SendsAssumption DEF ServiceInv, CountsOK, LedgerInv, TypeOK
  <1>4. \A k \in Keys : \/ effects'[k] = effects[k]
                        \/ effects'[k] = effects[k] \cup {call[c].id}
    BY <1>3, Zenon DEF GoesOn
  <1>5. ActsAlone(c)
    <2>1. denied' = denied \/ denied' = denied \cup {call[c].id}
      BY Zenon DEF GoesOn
    <2> QED
      BY <2>1, <1>0, <1>1, <1>2, <1>3, <1>4, Zenon DEF ActsAlone
  <1>6. HttpShape(c)' /\ Numbered(c)' /\ Linked(c)'
    BY <1>0, <1>1, <1>2, <1>3, Zenon DEF ClientOK, HttpShape, Numbered, Linked
  <1>7. Timely(c)'
    <2>1. CASE effects' = effects /\ call[c].phase # "committed" /\ call'[c].phase # "committed"
      BY <1>0, <1>1, <1>2, <1>3, <2>1, Zenon DEF ClientOK, Timely
    <2>2. CASE /\ effects' = [effects EXCEPT ![call[c].key] = @ \cup {call[c].id}]
               /\ call'[c].phase = "committed"
      BY <1>0, <1>1, <1>2, <1>3, <2>2, Zenon DEF Timely
    <2> QED
      BY <2>1, <2>2, Zenon DEF GoesOn
  <1>8. Earned(c)' /\ Tells(c)'
    BY <1>0, <1>1, Zenon DEF Earned, Tells
  <1> QED
    BY <1>5, <1>6, <1>7, <1>8, OneClientActs, Zenon DEF ClientOK

(* A call that reserves, decides or commits. *)
LEMMA ServeGoesOn ==
    ASSUME ServiceInv, [Next]_vars, NEW c \in Clients, http[c].phase = "calling",
           \/ (ReserveNew(c) \/ ReserveExisting(c) \/ Commit(c)) /\ UNCHANGED apiVars
           \/ Decide(c)
    PROVE  ServiceInv'
  <1> USE DEF apiVars
  <1>0. LedgerInv
    BY Zenon DEF ServiceInv
  <1>1. CASE ReserveNew(c) /\ UNCHANGED apiVars
    <2>1. call' = [call EXCEPT ![c].phase = "reserved"] /\ "reserved" \in Phases
      BY <1>1, Zenon DEF ReserveNew, Phases
    <2>2. Moved(c) /\ call'[c].phase = "reserved"
      BY <1>0, <2>1, PhaseMoved, Zenon
    <2> QED
      BY <1>1, <2>2, CallGoesOn, Zenon DEF GoesOn, ReserveNew
  <1>2. CASE ReserveExisting(c) /\ UNCHANGED apiVars
    <2>1. PICK phase \in {"reserved", "replaying"} : call' = [call EXCEPT ![c].phase = phase]
      BY <1>2, Zenon DEF ReserveExisting
    <2>2. phase \in Phases
      BY Zenon DEF Phases
    <2>3. Moved(c) /\ call'[c].phase = phase
      BY <1>0, <2>1, <2>2, PhaseMoved, Zenon
    <2> QED
      BY <1>2, <2>3, CallGoesOn, Zenon DEF GoesOn, ReserveExisting
  <1>3. CASE Commit(c) /\ UNCHANGED apiVars
    <2>1. call' = [call EXCEPT ![c].phase = "committed"] /\ "committed" \in Phases
      BY <1>3, Zenon DEF Commit, Phases
    <2>2. Moved(c) /\ call'[c].phase = "committed"
      BY <1>0, <2>1, PhaseMoved, Zenon
    <2> QED
      BY <1>3, <2>2, CallGoesOn, Zenon DEF GoesOn, Commit
  <1>4. CASE Decide(c)
    <2>1. call' = [call EXCEPT ![c].phase = "applied"] /\ "applied" \in Phases
      BY <1>4, Zenon DEF Decide, Apply, Phases
    <2>2. Moved(c) /\ call'[c].phase = "applied"
      BY <1>0, <2>1, PhaseMoved, Zenon
    <2> QED
      BY <1>4, <2>2, CallGoesOn, Zenon DEF GoesOn, Decide, Apply
  <1> QED
    BY <1>1, <1>2, <1>3, <1>4, Zenon

(* What the tables say of the operation of a running call. *)
LEMMA RunningTable ==
    ASSUME NEW c \in Clients, Running(c), NEW op, op = OpOf(http[c].route, http[c].method)
    PROVE  /\ 0 \notin op.named /\ 0 \notin op.answers.refused /\ 0 \notin op.answers.refound
           /\ op.other # 0 /\ op.answers.made # 0 /\ op.answers.found # 0
           /\ ~Rejects(op.answers.made)
           /\ \A s \in op.named \cup {op.other} : ~Succeeds(s)
           /\ StatusCreated \notin op.answers.refused /\ StatusCreated \notin op.answers.refound
  <1>1. op.answers.kind \in {"command", "evaluation"}
    BY Zenon DEF Running, AnswersOf
  <1>2. /\ http[c].route \in DOMAIN Routes /\ http[c].method \in Methods
        /\ Known(http[c].route, http[c].method)
    BY Zenon DEF Running
  <1> QED
    BY <1>1, <1>2, TableFacts, Zenon

(* What a replayed outcome is answered with is not "created". *)
LEMMA FoundSays ==
    ASSUME NEW c \in Clients, Running(c), NEW s \in FoundStatuses(c)
    PROVE  s # 0 /\ (AnswersOf(c).found = StatusOK => s # StatusCreated)
  <1> DEFINE op == OpOf(http[c].route, http[c].method)
  <1>1. /\ op.answers.found # 0 /\ 0 \notin op.answers.refound /\ StatusCreated \notin op.answers.refound
    BY RunningTable, Zenon
  <1>2. s \in op.answers.refound \/ s = op.answers.found
    BY Zenon DEF FoundStatuses, AnswersOf
  <1>3. AnswersOf(c) = op.answers
    BY Zenon DEF AnswersOf
  <1> HIDE DEF op
  <1> QED
    BY <1>1, <1>2, <1>3, StatusMeanings, Zenon

(* What a new outcome is answered with: "created" is no refusal, and a client
   error is one.                                                           *)
LEMMA MadeSays ==
    ASSUME NEW c \in Clients, Running(c), NEW s \in MadeStatuses(c)
    PROVE  /\ s # 0
           /\ s = StatusCreated => call[c].id \notin denied
           /\ Rejects(s) => call[c].id \in denied
  <1> DEFINE op == OpOf(http[c].route, http[c].method)
  <1>1. /\ op.answers.made # 0 /\ 0 \notin op.answers.refused /\ StatusCreated \notin op.answers.refused
        /\ ~Rejects(op.answers.made)
    BY RunningTable, Zenon
  <1>2. IF call[c].id \in denied THEN s \in op.answers.refused ELSE s = op.answers.made
    BY Zenon DEF MadeStatuses, AnswersOf
  <1> HIDE DEF op
  <1>3. CASE call[c].id \in denied
    <2>1. s \in op.answers.refused
      BY <1>2, <1>3, Zenon
    <2>2. s # 0 /\ s # StatusCreated
      BY <1>1, <2>1, Zenon
    <2> QED
      BY <1>3, <2>2, Zenon
  <1>4. CASE call[c].id \notin denied
    <2>1. s = op.answers.made
      BY <1>2, <1>4, Zenon
    <2> QED
      BY <1>1, <1>4, <2>1, Zenon
  <1> QED
    BY <1>3, <1>4, Zenon

(* What a failure is answered with is no success, and no client error where
   every other failure is answered 500, once the commit was sent.          *)
LEMMA FailSays ==
    ASSUME NEW c \in Clients, Running(c), NEW s \in FailStatuses(c)
    PROVE  /\ s # 0 /\ ~Succeeds(s) /\ s # StatusCreated
           /\ Rejects(s) /\ OpOf(http[c].route, http[c].method).other = StatusInternalError =>
                call[c].phase # "committed"
  <1> DEFINE op == OpOf(http[c].route, http[c].method)
  <1>1. /\ 0 \notin op.named /\ op.other # 0
        /\ \A t \in op.named \cup {op.other} : ~Succeeds(t)
    BY RunningTable, Zenon
  <1>2. s \in op.named \/ s = op.other
    BY Zenon DEF FailStatuses
  <1>3. call[c].phase = "committed" => s = op.other
    BY Zenon DEF FailStatuses
  <1> HIDE DEF op
  <1>4. s # 0 /\ ~Succeeds(s)
    BY <1>1, <1>2, Zenon
  <1>5. s # StatusCreated /\ (s = StatusInternalError => ~Rejects(s))
    BY <1>4, StatusMeanings, Zenon
  <1>6. Rejects(s) /\ op.other = StatusInternalError => call[c].phase # "committed"
    BY <1>3, <1>5, Zenon
  <1> QED
    BY <1>4, <1>5, <1>6, Zenon DEF op

(* What a write outside the ledger is answered with once it committed. *)
LEMMA WrittenSays ==
    ASSUME NEW c \in Clients, NEW s, http[c].route \in DOMAIN Routes, http[c].method \in Methods,
           Known(http[c].route, http[c].method), NEW op, op = OpOf(http[c].route, http[c].method)
    PROVE  /\ s \in op.named \/ s \in op.answers.refused \/ s = op.other \/ s = op.answers.made =>
                s # 0
           /\ op.answers.kind = "direct" /\ op.other = StatusInternalError /\ Rejects(s) =>
                s # op.answers.made /\ s # op.other
  <1>1. /\ 0 \notin op.named /\ 0 \notin op.answers.refused /\ op.other # 0 /\ op.answers.made # 0
        /\ op.answers.kind = "direct" => ~Rejects(op.answers.made)
    BY TableFacts, Zenon
  <1>2. s = StatusInternalError => ~Rejects(s)
    BY StatusMeanings, Zenon
  <1>3. op.answers.kind = "direct" /\ op.other = StatusInternalError /\ Rejects(s) =>
          s # op.answers.made /\ s # op.other
    BY <1>1, <1>2, Zenon
  <1> QED
    BY <1>1, <1>3, ZenonT(30)

(* A conflict of hashes is answered 409, and nothing was written. *)
LEMMA ConflictAnswered ==
    ASSUME ServiceInv, [Next]_vars, NEW c \in Clients, http[c].phase = "calling",
           ReserveConflict(c), Answer(c, StatusConflict), UNCHANGED <<denied, direct>>
    PROVE  ServiceInv'
  <1>1. /\ call' = [call EXCEPT ![c].phase = "idle", ![c].reply = Conflict]
        /\ call[c].phase = "begun" /\ UNCHANGED <<row, effects, calls>>
        /\ "idle" \in Phases
    BY Zenon DEF ReserveConflict, Phases
  <1>2. Moved(c) /\ call'[c].phase = "idle"
    BY <1>1, MovedFrom, Zenon DEF ServiceInv
  <1>3. call[c].id \notin effects[call[c].key]
    BY <1>1, NotYet, Zenon
  <1>4. PICK s : s = StatusConflict
    BY Zenon
  <1>5. ~Succeeds(s) /\ s # 0 /\ s # StatusCreated
    BY <1>4, StatusMeanings, Zenon
  <1>6. Answer(c, s)
    BY <1>4, Zenon
  <1> QED
    <2>1. CallEnds(c, s)
      BY <1>1, <1>2, <1>6, Zenon DEF CallEnds
    <2>2. SuccessFits(c, s)
      BY <1>5, Zenon DEF SuccessFits
    <2>3. CreationFits(c, s)
      BY <1>5, Zenon DEF CreationFits
    <2>4. ErrorFits(c, s)
      BY <1>3, Zenon DEF ErrorFits
    <2>5. s # 0
      BY <1>5, Zenon
    <2> QED
      BY <2>1, <2>2, <2>3, <2>4, <2>5, CallAnswered, Zenon DEF StatusFits

(* A replayed outcome is on record, and is not answered as created. *)
LEMMA ReplayAnswered ==
    ASSUME ServiceInv, [Next]_vars, NEW c \in Clients, http[c].phase = "calling",
           Replay(c), NEW s \in FoundStatuses(c), Answer(c, s), UNCHANGED <<denied, direct>>
    PROVE  ServiceInv'
  <1>1. /\ call' = [call EXCEPT ![c].phase = "idle", ![c].reply = row[call[c].key].response]
        /\ call[c].phase = "replaying" /\ UNCHANGED <<row, effects, calls>>
        /\ "idle" \in Phases
    BY Zenon DEF Replay, Phases
  <1>2. /\ call[c].key \in GuardedKeys
        /\ row[call[c].key] # NoRow
        /\ Asking(row[call[c].key]) = Asking(call[c])
    BY <1>1, Zenon DEF ServiceInv, LedgerInv, RowFound
  <1>3. row[call[c].key].response \in 1..MaxCalls
    BY <1>2, Zenon DEF ServiceInv, LedgerInv, TypeOK, Rows, Keys
  <1>4. Moved(c) /\ call'[c].phase = "idle"
    BY <1>1, <1>3, MovedFrom, Zenon DEF ServiceInv
  <1>5. call[c].id \notin effects[call[c].key]
    BY <1>1, NotYet, Zenon
  <1>6. s # 0 /\ (AnswersOf(c).found = StatusOK => s # StatusCreated)
    BY RunningCall, FoundSays, Zenon
  <1> QED
    <2>1. CallEnds(c, s)
      BY <1>1, <1>4, Zenon DEF CallEnds
    <2>2. SuccessFits(c, s)
      BY <1>2, Zenon DEF SuccessFits
    <2>3. CreationFits(c, s)
      BY <1>6, Zenon DEF CreationFits
    <2>4. ErrorFits(c, s)
      BY <1>5, Zenon DEF ErrorFits
    <2>5. s # 0
      BY <1>6, Zenon
    <2> QED
      BY <2>1, <2>2, <2>3, <2>4, <2>5, CallAnswered, Zenon DEF StatusFits

(* A new outcome is on record as this call's, and is no client error unless
   it is a recorded refusal.                                               *)
LEMMA ReplyAnswered ==
    ASSUME ServiceInv, [Next]_vars, NEW c \in Clients, http[c].phase = "calling",
           Reply(c), NEW s \in MadeStatuses(c), Answer(c, s), UNCHANGED <<denied, direct>>
    PROVE  ServiceInv'
  <1>1. /\ call' = [call EXCEPT ![c].phase = "idle", ![c].reply = call[c].id]
        /\ call[c].phase = "committed" /\ UNCHANGED <<row, effects, calls>>
        /\ "idle" \in Phases
    BY Zenon DEF Reply, Phases
  <1>2. call[c].id \in 1..MaxCalls
    BY <1>1, Zenon DEF ServiceInv, LedgerInv, CallsNumbered
  <1>3. Moved(c) /\ call'[c].phase = "idle"
    BY <1>1, <1>2, MovedFrom, Zenon DEF ServiceInv
  <1>4. call[c].id \in effects[call[c].key]
    BY <1>1, Zenon DEF ServiceInv, ClientOK, Timely
  <1>5. AnswersOf(c).kind = "command" =>
          row[call[c].key] # NoRow /\ Asking(row[call[c].key]) = Asking(call[c])
    BY <1>1, RunningCall, Zenon DEF Running, ServiceInv, LedgerInv, RowFound
  <1>6. /\ s # 0
        /\ s = StatusCreated => call[c].id \notin denied
        /\ Rejects(s) => call[c].id \in denied
    BY RunningCall, MadeSays, Zenon
  <1> QED
    <2>1. CallEnds(c, s)
      BY <1>1, <1>3, Zenon DEF CallEnds
    <2>2. SuccessFits(c, s)
      BY <1>5, Zenon DEF SuccessFits
    <2>3. CreationFits(c, s)
      BY <1>4, <1>6, Zenon DEF CreationFits
    <2>4. ErrorFits(c, s)
      BY <1>6, Zenon DEF ErrorFits
    <2>5. s # 0
      BY <1>6, Zenon
    <2> QED
      BY <2>1, <2>2, <2>3, <2>4, <2>5, CallAnswered, Zenon DEF StatusFits

(* A failure is answered as no success, and as a client error only when the
   transaction rolled back.                                                *)
LEMMA FailAnswered ==
    ASSUME ServiceInv, [Next]_vars, NEW c \in Clients, FailCommand(c)
    PROVE  ServiceInv'
  <1>1. /\ call' = [call EXCEPT ![c].phase = "idle"]
        /\ UNCHANGED <<row, effects, calls>> /\ UNCHANGED <<denied, direct>>
        /\ "idle" \in Phases /\ http[c].phase = "calling"
    BY Zenon DEF FailCommand, Fail, Phases
  <1>2. PICK s \in FailStatuses(c) : Answer(c, s)
    BY Zenon DEF FailCommand
  <1>3. Moved(c) /\ call'[c].phase = "idle"
    BY <1>1, PhaseMoved, Zenon DEF ServiceInv
  <1>4. call[c].phase # "committed" => call[c].id \notin effects[call[c].key]
    BY <1>1, RunningCall, NotYet, Zenon DEF Running
  <1>5. /\ s # 0 /\ ~Succeeds(s) /\ s # StatusCreated
        /\ Rejects(s) /\ OpOf(http[c].route, http[c].method).other = StatusInternalError =>
             call[c].phase # "committed"
    <2>1. Running(c) /\ s \in FailStatuses(c)
      BY <1>1, <1>2, RunningCall, Zenon
    <2> QED
      BY <2>1, FailSays, Zenon
  <1> QED
    <2>1. CallEnds(c, s)
      BY <1>1, <1>2, <1>3, Zenon DEF CallEnds
    <2>2. SuccessFits(c, s)
      BY <1>5, Zenon DEF SuccessFits
    <2>3. CreationFits(c, s)
      BY <1>5, Zenon DEF CreationFits
    <2>4. ErrorFits(c, s)
      BY <1>4, <1>5, Zenon DEF ErrorFits
    <2>5. s # 0
      BY <1>5, Zenon
    <2> QED
      BY <2>1, <2>2, <2>3, <2>4, <2>5, CallAnswered, Zenon DEF StatusFits

(* A write outside the ledger commits under the request's own number. *)
LEMMA WriteDirectOK ==
    ASSUME ServiceInv, NEW c \in Clients, WriteDirect(c)
    PROVE  ServiceInv'
  <1>1. /\ http[c].phase = "writing" /\ direct' = direct \cup {http[c].id}
        /\ http' = [http EXCEPT ![c].phase = "written"]
        /\ UNCHANGED <<routeOf, denied, sends>> /\ UNCHANGED vars
    BY Zenon DEF WriteDirect
  <1>2. UNCHANGED <<row, effects, call, calls>>
    BY <1>1, Zenon DEF vars
  <1>3. /\ ClientOK(c) /\ DOMAIN http = Clients /\ DOMAIN http[c] = HttpFields
        /\ sends <= MaxSends
    BY SendsAssumption DEF ServiceInv, CountsOK, ClientOK, HttpShape
  <1>4. SameRequest(c) /\ http'[c].phase = "written" /\ http'[c].status = http[c].status
    BY <1>1, <1>3, Zenon DEF SameRequest, HttpFields
  <1>5. /\ http[c].id # 0 /\ http[c].mine = 0 /\ PassedChecks(http[c])
        /\ call[c].phase = "idle"
    BY <1>1, <1>3, Zenon DEF ClientOK, Numbered, Linked, Earned
  <1>6. ActsAlone(c)
    BY <1>1, <1>2, <1>3, <1>4, <1>5, Zenon DEF ActsAlone, SameRequest
  <1>7. HttpShape(c)' /\ Numbered(c)'
    <2>1. HttpShape(c)'
      BY <1>1, <1>3, <1>4, Zenon DEF ClientOK, HttpShape, HttpPhases, SameRequest
    <2> QED
      BY <2>1, <1>1, <1>2, <1>3, <1>4, <1>5, Zenon DEF ClientOK, Numbered, SameRequest
  <1>8. Linked(c)'
    BY <1>1, <1>2, <1>3, <1>4, <1>5, Zenon DEF ClientOK, Linked, SameRequest
  <1>9. Timely(c)' /\ Tells(c)'
    <2>1. call'[c].phase = "idle" /\ http'[c].phase = "written"
      BY <1>2, <1>4, <1>5, Zenon
    <2> QED
      BY <2>1, NothingDue, UnansweredTells, Zenon
  <1>10. Earned(c)'
    BY <1>4, <1>5, SameChecks, ChecksEarn, Zenon
  <1> QED
    BY <1>1, <1>6, <1>7, <1>8, <1>9, <1>10, OneClientActs, Zenon DEF ClientOK

(* A write outside the ledger is answered: with an error only if it did not
   commit, or with the error every failure of the handler has.             *)
LEMMA AnswerDirectOK ==
    ASSUME ServiceInv, NEW c \in Clients, AnswerDirect(c)
    PROVE  ServiceInv'
  <1> DEFINE op == OpOf(http[c].route, http[c].method)
  <1>1. /\ http[c].phase \in {"writing", "written"}
        /\ UNCHANGED <<denied, direct>> /\ UNCHANGED vars
    BY Zenon DEF AnswerDirect
  <1>2. PICK s : /\ Answer(c, s)
                 /\ \/ http[c].phase = "writing" /\ s \in op.named \cup op.answers.refused \cup {op.other}
                    \/ http[c].phase = "written" /\ s \in {op.answers.made, op.other}
    BY Zenon DEF AnswerDirect
  <1>3. UNCHANGED <<row, effects, call, calls>>
    BY <1>1, Zenon DEF vars
  <1>4. ClientOK(c) /\ sends <= MaxSends
    BY SendsAssumption DEF ServiceInv, CountsOK
  <1>5. /\ SameRequest(c)
        /\ http'[c].phase = "answered" /\ http'[c].status = s
        /\ routeOf' = routeOf /\ sends' = sends
    BY <1>2, AnswerSays, Zenon
  <1>6. /\ http[c].id # 0 /\ http[c].mine = 0 /\ PassedChecks(http[c])
        /\ call[c].phase = "idle"
        /\ Known(http[c].route, http[c].method) /\ op.answers.kind = "direct"
        /\ http[c].route \in DOMAIN Routes /\ http[c].method \in Methods
        /\ http[c].phase = "writing" => http[c].id \notin direct
    <2>1. HttpShape(c) /\ Numbered(c) /\ Linked(c) /\ Timely(c) /\ Earned(c)
      BY <1>4, Zenon DEF ClientOK
    <2>2. /\ http[c].mine = 0 /\ call[c].phase = "idle"
          /\ Known(http[c].route, http[c].method) /\ op.answers.kind = "direct"
      BY <1>1, <2>1, Zenon DEF Linked, KindOf
    <2>3. http[c].id # 0 /\ (http[c].phase = "writing" => http[c].id \notin direct)
      BY <1>1, <2>1, Zenon DEF Numbered, Timely
    <2>4. PassedChecks(http[c]) /\ http[c].route \in DOMAIN Routes /\ http[c].method \in Methods
      BY <1>1, <2>1, Zenon DEF Earned, HttpShape
    <2> QED
      BY <2>2, <2>3, <2>4, Zenon
  <1>7. /\ s \in op.named \/ s \in op.answers.refused \/ s = op.other \/ s = op.answers.made => s # 0
        /\ op.answers.kind = "direct" /\ op.other = StatusInternalError /\ Rejects(s) =>
             s # op.answers.made /\ s # op.other
    BY <1>6, WrittenSays, Zenon
  <1>8. s # 0
    BY <1>2, <1>7, Zenon
  <1>9. ActsAlone(c)
    BY <1>1, <1>3, <1>4, <1>5, Zenon DEF ActsAlone, SameRequest
  <1>10. HttpShape(c)' /\ Numbered(c)'
    BY <1>3, <1>4, <1>5, <1>6, <1>8, Zenon
       DEF ClientOK, HttpShape, HttpPhases, Numbered, SameRequest
  <1>11. Linked(c)' /\ Timely(c)'
    BY <1>3, <1>5, <1>6, Zenon DEF Linked, Timely, SameRequest
  <1>12. Earned(c)'
    BY <1>5, <1>6, SameChecks, ChecksEarn, Zenon
  <1>13. Tells(c)'
    <2>1. http'[c].mine = 0 /\ http'[c].id = http[c].id
          /\ OpOf(http'[c].route, http'[c].method) = op
      BY <1>5, <1>6, Zenon DEF SameRequest
    <2>2. TookEffect(c)' => http[c].phase = "written"
      BY <1>1, <1>6, <2>1, Zenon DEF TookEffect
    <2>3. http[c].phase = "written" /\ op.other = StatusInternalError => ~Rejects(s)
      BY <1>2, <1>6, <1>7, Zenon
    <2>4. SuccessTold(c)' /\ CreationTold(c)'
      BY <2>1, Zenon DEF SuccessTold, CreationTold
    <2>5. ErrorTold(c)'
      BY <1>5, <2>1, <2>2, <2>3, Zenon DEF ErrorTold
    <2> QED
      BY <2>4, <2>5, Zenon DEF Tells
  <1> QED
    BY <1>1, <1>9, <1>10, <1>11, <1>12, <1>13, OneClientActs, Zenon DEF ClientOK

-----------------------------------------------------------------------------
(* Initially nothing was sent. *)
LEMMA ServiceInit == ApiInit(Routings) => ServiceInv
  <1> SUFFICES ASSUME ApiInit(Routings) PROVE ServiceInv
    BY Zenon
  <1>1. LedgerInv
    BY LedgerInit, Zenon DEF ApiInit
  <1>2. /\ \A c \in Clients : call[c].phase = "idle" /\ call[c].id = 0
        /\ \A k \in Keys : effects[k] = {}
        /\ calls = 0
    BY DEF ApiInit, Init
  <1>3. /\ DOMAIN http = Clients /\ denied = {} /\ direct = {} /\ sends = 0
        /\ \A c \in Clients : http[c] = Idle
        /\ routeOf \in Routings
    BY Zenon DEF ApiInit
  <1>4. CountsOK
    BY <1>2, <1>3, SendsAssumption DEF CountsOK
  <1>5. ASSUME NEW c \in Clients PROVE ClientOK(c)
    <2>1. HttpShape(c)
      BY <1>3, RoutesAssumption DEF HttpShape, HttpFields, HttpPhases, Idle, Methods
    <2>2. http[c].phase = "idle" /\ http[c].mine = 0 /\ http[c].id = 0
      BY <1>3 DEF Idle
    <2>3. Numbered(c) /\ Linked(c)
      <3>1. 0 \in 0..calls /\ 0 \in 0..sends
        BY <1>2, <1>3
      <3> QED
        BY <1>2, <2>2, <3>1, Zenon DEF Numbered, Linked
    <2>4. Timely(c) /\ Earned(c)
      BY <1>2, <1>3, <2>2, Zenon DEF Timely, Earned
    <2>5. Tells(c)
      BY <2>2, Zenon DEF Tells
    <2> QED
      BY <2>1, <2>3, <2>4, <2>5, ZenonT(30) DEF ClientOK
  <1>6. \A c, d \in Clients : Distinct(c, d)
    BY <1>2, <1>3 DEF Distinct, Idle
  <1> QED
    BY <1>1, <1>4, <1>5, <1>6, Zenon DEF ServiceInv

(* What the gates look at is no concern of a request. *)
LEMMA Untouched ==
    ASSUME ServiceInv, [Next]_vars, UNCHANGED <<row, effects, call, calls>>, UNCHANGED apiVars
    PROVE  ServiceInv'
  <1>1. LedgerInv'
    BY LedgerNext, Zenon DEF ServiceInv
  <1>2. CountsOK'
    <2>1. Routings' = Routings
      BY Zenon DEF Routings, CommandRoutes, EvaluationRoutes, KindOf, OpOf
    <2> QED
      BY <2>1, Zenon DEF ServiceInv, CountsOK, apiVars
  <1>3. \A c \in Clients : ClientOK(c)'
    <2>1. Counted /\ RowsStand
      BY SendsAssumption, LedgerAssumption
         DEF Counted, RowsStand, apiVars, ServiceInv, CountsOK, LedgerInv, TypeOK
    <2>2. \A c \in Clients : LeftAlone(c)
      BY Zenon DEF LeftAlone, apiVars
    <2> QED
      BY <2>1, <2>2, BystanderOK, Zenon
  <1>4. \A c, d \in Clients : c # d => Distinct(c, d)'
    BY Zenon DEF ServiceInv, apiVars, Distinct
  <1> QED
    BY <1>1, <1>2, <1>3, <1>4, Zenon DEF ServiceInv

(* The invariant is kept by every step of every request. *)
LEMMA ServiceStep == ServiceInv /\ [ApiNext]_<<vars, apiVars>> => ServiceInv'
  <1> SUFFICES ASSUME ServiceInv, [ApiNext]_<<vars, apiVars>> PROVE ServiceInv'
    BY Zenon
  <1>0. [Next]_vars
    BY ServiceStepsLedger, Zenon
  <1>1. CASE UNCHANGED <<vars, apiVars>>
    BY <1>0, <1>1, Untouched, Zenon DEF vars
  <1>2. ASSUME NEW f \in Facts, ChangeFact(f), UNCHANGED apiVars PROVE ServiceInv'
    BY <1>0, <1>2, Untouched, Zenon DEF ChangeFact
  <1>3. ASSUME NEW c \in Clients, NEW who, NEW k \in Keys, NEW req \in Requests,
               NEW scope, NEW owner, BeginCommand(c, who, k, req, scope, owner)
        PROVE  ServiceInv'
    BY <1>3, BeginCommandOK, Zenon
  <1>4. ASSUME NEW c \in Clients, NEW who, NEW route \in DOMAIN Routes,
               NEW method \in Methods, NEW scope, NEW owner,
               \/ AnswerEarly(c, who, route, method, scope, owner)
               \/ BeginDirect(c, who, route, method, scope, owner)
        PROVE  ServiceInv'
    BY <1>4, AnswerEarlyOK, BeginDirectOK, Zenon
  <1>5. ASSUME NEW c \in Clients, ServeCommand(c) PROVE ServiceInv'
    <2>1. http[c].phase = "calling"
      BY <1>5, Zenon DEF ServeCommand
    <2>2. CASE \/ (ReserveNew(c) \/ ReserveExisting(c) \/ Commit(c)) /\ UNCHANGED apiVars
               \/ Decide(c)
      BY <1>0, <2>1, <2>2, ServeGoesOn, Zenon
    <2>3. CASE ReserveConflict(c) /\ Answer(c, StatusConflict) /\ UNCHANGED <<denied, direct>>
      BY <1>0, <2>1, <2>3, ConflictAnswered, Zenon
    <2>4. CASE Replay(c) /\ (\E s \in FoundStatuses(c) : Answer(c, s)) /\ UNCHANGED <<denied, direct>>
      BY <1>0, <2>1, <2>4, ReplayAnswered, Zenon
    <2>5. CASE Reply(c) /\ (\E s \in MadeStatuses(c) : Answer(c, s)) /\ UNCHANGED <<denied, direct>>
      BY <1>0, <2>1, <2>5, ReplyAnswered, Zenon
    <2> QED
      BY <1>5, <2>2, <2>3, <2>4, <2>5, Zenon DEF ServeCommand
  <1>6. ASSUME NEW c \in Clients, FailCommand(c) PROVE ServiceInv'
    BY <1>0, <1>6, FailAnswered, Zenon
  <1>7. ASSUME NEW c \in Clients, WriteDirect(c) \/ AnswerDirect(c) PROVE ServiceInv'
    BY <1>7, WriteDirectOK, AnswerDirectOK, Zenon
  <1> QED
    BY <1>1, <1>2, <1>3, <1>4, <1>5, <1>6, <1>7 DEF ApiNext

(* However requests interleave, the invariant of the service holds. *)
THEOREM ServiceInvariance == ApiSpec => []ServiceInv
  <1>1. ApiInit(Routings) => ServiceInv
    BY ServiceInit, Zenon
  <1>2. ServiceInv /\ [ApiNext]_<<vars, apiVars>> => ServiceInv'
    BY ServiceStep, Zenon
  <1> QED
    BY <1>1, <1>2, PTL DEF ApiSpec

(* A request that passed the checks writes where its sender may. *)
LEMMA WritesWithin ==
    ASSUME NEW c \in Clients, PassedChecks(http[c]),
           http[c].route \notin PublicRoutes \cup SelfRoutes
    PROVE  /\ http[c].who # NoPrincipal
           /\ AllowsCapability(http[c].who, requestCapability(http[c].route, http[c].method))
           /\ AllowsProject(http[c].who, IF Target(c) = NoProject THEN "*" ELSE Target(c))
           /\ http[c].route \in RunBodied => http[c].owner = Target(c)
  <1> DEFINE h == http[c]
  <1>1. /\ h.who # NoPrincipal
        /\ AllowsCapability(h.who, requestCapability(h.route, h.method))
        /\ AllowsProject(h.who, IF h.scope = NoProject THEN "*" ELSE h.scope)
    <2>1. authMiddleware(h.who, h.route, h.method, h.scope) = {}
      BY Zenon DEF PassedChecks
    <2>2. {StatusUnauthorized} # {} /\ {StatusForbidden} # {} /\ {StatusNotFound} # {}
      BY Zenon
    <2> QED
      BY <2>1, <2>2, Zenon DEF authMiddleware
  <1>2. /\ h.route \in RunRoutes => h.scope \in {NoProject, h.owner}
        /\ h.route \in RunBodied => h.scope = h.owner
    BY Zenon DEF PassedChecks, Visible
  <1>3. h.route \in RunBodied => Target(c) = h.scope
    BY RoutesAssumption, Zenon DEF Target
  <1>4. \A p : AllowsProject(h.who, "*") => AllowsProject(h.who, p)
    BY Zenon DEF AllowsProject
  <1>5. AllowsProject(h.who, IF Target(c) = NoProject THEN "*" ELSE Target(c))
    <2>1. CASE h.route \in RunRoutes
      BY <1>1, <1>2, <1>4, <2>1, Zenon DEF Target
    <2>2. CASE h.route \notin RunRoutes
      BY <1>1, <2>2, Zenon DEF Target
    <2> QED
      BY <2>1, <2>2, Zenon
  <1> QED
    BY <1>1, <1>2, <1>3, <1>5, Zenon

(* For any clients, keys, principals, projects and any number of requests:
   the status a sender gets tells what became of the write, and a write falls
   in a project the sender may write in (the handlers of server.go over
   reserveCommandRequest, behind authMiddleware).                          *)
THEOREM EffectsStayAccounted == ApiSpec => []EffectsAreAccounted
  <1>1. ServiceInv => EffectsAreAccounted
    <2> SUFFICES ASSUME ServiceInv PROVE EffectsAreAccounted
      BY Zenon
    <2>1. HttpTypeOK
      <3>1. denied \subseteq 1..MaxCalls
        BY LedgerAssumption DEF ServiceInv, CountsOK, LedgerInv, TypeOK
      <3>2. direct \subseteq 1..MaxSends
        BY SendsAssumption DEF ServiceInv, CountsOK
      <3>3. routeOf \in [Keys -> CommandRoutes \cup EvaluationRoutes] /\ sends \in 0..MaxSends
        BY Zenon DEF ServiceInv, CountsOK, Routings
      <3>4. \A c \in Clients : HttpShape(c)
        BY Zenon DEF ServiceInv, ClientOK
      <3> QED
        BY <3>1, <3>2, <3>3, <3>4, Zenon DEF HttpTypeOK, HttpShape
    <2>2. StatusTellsEffect
      <3>1. \A c \in Clients : Tells(c)
        BY Zenon DEF ServiceInv, ClientOK
      <3> QED
        BY <3>1, Zenon DEF StatusTellsEffect, Tells
    <2>3. WritesStayInProject
      <3>1. ASSUME NEW c \in Clients, TookEffect(c) PROVE PassedChecks(http[c])
        BY <3>1, Zenon DEF ServiceInv, ClientOK, Earned, TookEffect
      <3> QED
        BY <3>1, WritesWithin, Zenon DEF WritesStayInProject
    <2> QED
      BY <2>1, <2>2, <2>3, Zenon DEF EffectsAreAccounted
  <1> QED
    BY <1>1, ServiceInvariance, PTL

(* The API on top of it leaves the ledger what it was: with requests that are
   answered early, written directly or failed beside them, the commands still
   implement the abstract ledger (server.go over reserveCommandRequest).   *)
THEOREM ServiceRefinement == ApiSpec => ImplementsIdempotentCommands
  <1>1. ApiInit(Routings) => Init
    BY Zenon DEF ApiInit
  <1>2. [ApiNext]_<<vars, apiVars>> => [Next]_vars
    BY ServiceStepsLedger, Zenon
  <1>3. ApiSpec => Spec
    BY <1>1, <1>2, PTL DEF ApiSpec, Spec
  <1> QED
    BY <1>3, LedgerRefinement, Zenon

=============================================================================
