---------------------------- MODULE CommandLedger ---------------------------
(***************************************************************************)
(* The transaction every write command runs in: reserveCommandRequest,     *)
(* the effect, completeCommandRequestResponse, commit, and the answer to   *)
(* the caller.  Several calls run at once; a transaction may fail at any   *)
(* step and the answer of a committed one may be lost.                     *)
(*                                                                         *)
(* A key here is a command type with an idempotency key.  Most handlers    *)
(* replay a key they did not create; workflow.gate.run and                 *)
(* workflow.transition.preview ignore what reserveCommandRequest says.     *)
(* These two, and some that replay, put what they found before the         *)
(* transaction in the request hash: an approval the preview it resolved, a *)
(* completion audit its result, an import, a doctor report and a status    *)
(* projection the summary.                                                 *)
(***************************************************************************)
EXTENDS Naturals, FiniteSets

CONSTANTS
    Clients,
    GuardedKeys,     \* keys of commands that replay
    UnguardedKeys,   \* keys of the gate and preview commands
    Requests,        \* what a caller asks for
    FactKeys,        \* the GuardedKeys whose requests are about what was found
    Facts,           \* what a handler finds when it looks
    MaxCalls,        \* bound on the calls made
    NoRow, NoClient, NoReply, Conflict, NoOutcome,
    OtherKey         \* stands for the unguarded keys in the abstract ledger

ASSUME LedgerAssumption ==
    /\ GuardedKeys \cap UnguardedKeys = {}
    /\ FactKeys \subseteq GuardedKeys
    /\ MaxCalls \in Nat
    /\ {NoReply, Conflict} \cap (1..MaxCalls) = {}
    /\ NoReply # Conflict
    /\ NoClient \notin Clients
    /\ OtherKey \notin GuardedKeys \cup UnguardedKeys
    /\ NoRow \notin [req : Requests, about : Facts, hash : Requests \X Facts,
                     response : 1..MaxCalls]
    /\ NoOutcome \notin [req : Requests \X Facts, out : 1..MaxCalls]

VARIABLES
    fact,     \* what a handler would find now
    row,      \* command_requests, committed
    writer,   \* the transaction that inserted the key and has not ended
    effects,  \* the calls whose domain rows are committed, by key
    call,     \* each client's call
    calls     \* calls made so far

vars == <<fact, row, writer, effects, call, calls>>

Keys == GuardedKeys \cup UnguardedKeys

(* What a request hash covers: the request, and a fact. *)
Hashes == Requests \X Facts

(* Stands in the hashes that cover the request alone. *)
NoFact == CHOOSE f \in Facts : TRUE

Phases == {"idle", "begun", "reserved", "replaying", "applied", "committed"}

(* A call and a row remember, beside the hash, the request and the fact it is
   about: they are what the hash is to tell apart.                         *)
Calls == [phase : Phases, id : 0..MaxCalls, key : Keys, req : Requests,
          about : Facts, hash : Hashes, reply : (1..MaxCalls) \cup {NoReply, Conflict}]

Rows == [req : Requests, about : Facts, hash : Hashes, response : 1..MaxCalls]

(* What a call asks, or a row was written for. *)
Asking(r) == <<r.req, r.about>>

(* Every row and every call is well formed; a transaction's own insert is
   not yet a row.                                                          *)
TypeOK ==
    /\ fact \in Facts
    /\ row \in [Keys -> Rows \cup {NoRow}]
    /\ writer \in [Keys -> Clients \cup {NoClient}]
    /\ effects \in [Keys -> SUBSET (1..MaxCalls)]
    /\ call \in [Clients -> Calls]
    /\ calls \in 0..MaxCalls

-----------------------------------------------------------------------------
Init ==
    /\ fact \in Facts
    /\ row = [k \in Keys |-> NoRow]
    /\ writer = [k \in Keys |-> NoClient]
    /\ effects = [k \in Keys |-> {}]
    /\ \E k \in Keys, req \in Requests :
         call = [c \in Clients |->
                   [phase |-> "idle", id |-> 0, key |-> k, req |-> req,
                    about |-> NoFact, hash |-> <<req, NoFact>>, reply |-> NoReply]]
    /\ calls = 0

(* The world the handlers look at changes. *)
ChangeFact(f) ==
    /\ fact' = f
    /\ UNCHANGED <<row, writer, effects, call, calls>>

(* Variant: the preview an approval was resolved to is not hashed. *)
HashedRequestOnly(k, req) ==
    <<req, IF k \in UnguardedKeys THEN fact ELSE NoFact>>

(* The request hash of a call made now. *)
Hashed(k, req) ==
    <<req, IF k \in UnguardedKeys \cup FactKeys THEN fact ELSE NoFact>>

(* The handler normalises the request, looks up or evaluates what its answer
   depends on, hashes and begins the transaction.                          *)
Call(c, k, req) ==
    /\ call[c].phase = "idle"
    /\ calls < MaxCalls
    /\ calls' = calls + 1
    /\ call' = [call EXCEPT ![c] =
                  [phase |-> "begun", id |-> calls + 1, key |-> k, req |-> req,
                   about |-> IF k \in FactKeys THEN fact ELSE NoFact,
                   hash |-> Hashed(k, req), reply |-> NoReply]]
    /\ UNCHANGED <<fact, row, writer, effects>>

(* INSERT ... ON CONFLICT DO NOTHING finds no row with the key.  Another
   uncommitted insert of the key makes it wait.                            *)
ReserveNew(c) ==
    LET k == call[c].key
    IN  /\ call[c].phase = "begun"
        /\ writer[k] = NoClient
        /\ row[k] = NoRow
        /\ writer' = [writer EXCEPT ![k] = c]
        /\ call' = [call EXCEPT ![c].phase = "reserved"]
        /\ UNCHANGED <<fact, row, effects, calls>>

HashMatches(c) == row[call[c].key].hash = call[c].hash

(* The key exists with the same hash: created is false, and only the gate
   and preview commands go on to apply.                                    *)
ReserveExisting(c) ==
    LET k == call[c].key
    IN  /\ call[c].phase = "begun"
        /\ row[k] # NoRow
        /\ HashMatches(c)
        /\ call' = [call EXCEPT ![c].phase =
                      IF k \in UnguardedKeys THEN "reserved" ELSE "replaying"]
        /\ UNCHANGED <<fact, row, writer, effects, calls>>

ReserveConflict(c) ==
    /\ call[c].phase = "begun"
    /\ row[call[c].key] # NoRow
    /\ ~HashMatches(c)
    /\ call' = [call EXCEPT ![c].phase = "idle", ![c].reply = Conflict]
    /\ UNCHANGED <<fact, row, writer, effects, calls>>

(* loadCommandResponse, and the commit of a transaction that wrote nothing. *)
Replay(c) ==
    /\ call[c].phase = "replaying"
    /\ call' = [call EXCEPT ![c].phase = "idle",
                            ![c].reply = row[call[c].key].response]
    /\ UNCHANGED <<fact, row, writer, effects, calls>>

(* The domain rows, the event, the audit event and the response are written
   inside the transaction.                                                 *)
Apply(c) ==
    /\ call[c].phase = "reserved"
    /\ call' = [call EXCEPT ![c].phase = "applied"]
    /\ UNCHANGED <<fact, row, writer, effects, calls>>

(* Commit: the effect, the row and its response become visible at once.  A
   handler that did not create the row overwrites its response.            *)
Commit(c) ==
    LET k == call[c].key
    IN  /\ call[c].phase = "applied"
        /\ effects' = [effects EXCEPT ![k] = @ \cup {call[c].id}]
        /\ row' = [row EXCEPT ![k] =
                     [req |-> call[c].req, about |-> call[c].about,
                      hash |-> call[c].hash, response |-> call[c].id]]
        /\ writer' = [writer EXCEPT ![k] = IF @ = c THEN NoClient ELSE @]
        /\ call' = [call EXCEPT ![c].phase = "committed"]
        /\ UNCHANGED <<fact, calls>>

Reply(c) ==
    /\ call[c].phase = "committed"
    /\ call' = [call EXCEPT ![c].phase = "idle", ![c].reply = call[c].id]
    /\ UNCHANGED <<fact, row, writer, effects, calls>>

(* Variant: the key stays reserved after a rollback. *)
FailKeepingKey(c) ==
    /\ call[c].phase # "idle"
    /\ call' = [call EXCEPT ![c].phase = "idle"]
    /\ UNCHANGED <<fact, row, writer, effects, calls>>

(* The transaction rolls back, or, after the commit, the answer is lost. *)
Fail(c) ==
    LET k == call[c].key
    IN  /\ call[c].phase # "idle"
        /\ writer' = [writer EXCEPT ![k] = IF @ = c THEN NoClient ELSE @]
        /\ call' = [call EXCEPT ![c].phase = "idle"]
        /\ UNCHANGED <<fact, row, effects, calls>>

Serve(c) ==
    \/ ReserveNew(c)
    \/ ReserveExisting(c)
    \/ ReserveConflict(c)
    \/ Replay(c)
    \/ Apply(c)
    \/ Commit(c)
    \/ Reply(c)

Next ==
    \/ \E f \in Facts : ChangeFact(f)
    \/ \E c \in Clients :
         \/ \E k \in Keys, req \in Requests : Call(c, k, req)
         \/ Serve(c)
         \/ Fail(c)

Spec == Init /\ [][Next]_vars

-----------------------------------------------------------------------------
(* However calls, retries and failures interleave, a replaying command takes
   effect at most once per key, and exactly when its key is recorded.      *)
EffectOnce ==
    \A k \in GuardedKeys :
        effects[k] = IF row[k] = NoRow THEN {} ELSE {row[k].response}

(* Whoever is answered with an outcome is answered with the outcome that was
   recorded for that key and that request: an approval answered with an
   earlier one was resolved to the same preview.                           *)
RepliesAgree ==
    \A c \in Clients :
        /\ call[c].key \in GuardedKeys
        /\ call[c].reply \notin {NoReply, Conflict}
        => /\ row[call[c].key] # NoRow
           /\ row[call[c].key].response = call[c].reply
           /\ Asking(row[call[c].key]) = Asking(call[c])

(* The recorded response of a gate or preview command is one of the results
   it did commit.                                                          *)
ResponseIsAnEffect ==
    \A k \in Keys : row[k] # NoRow => row[k].response \in effects[k]

(* A key being written belongs to a transaction that is still running, so a
   failed call never blocks its retry.                                     *)
WriterIsRunning ==
    \A k \in Keys : writer[k] # NoClient =>
        /\ call[writer[k]].key = k
        /\ call[writer[k]].phase \in {"reserved", "applied"}

(* A recorded outcome of a replaying command is never rewritten. *)
OutcomeNeverRewritten ==
    [][\A k \in GuardedKeys : row[k] # NoRow => row'[k] = row[k]]_vars

(* The calls on replaying keys, seen through the abstract ledger: a call is
   asked when it begins, executed when it commits and answered when its
   reply is set.  A call of a gate or preview is one that is never answered. *)
Replaying(c) == call[c].key \in GuardedKeys

Ledger == INSTANCE IdempotentCommands WITH
    Keys <- GuardedKeys \cup {OtherKey},
    Requests <- Hashes,
    Outcomes <- 1..MaxCalls,
    NoAnswer <- NoReply,
    ledger <- [k \in GuardedKeys \cup {OtherKey} |->
                 IF k = OtherKey \/ row[k] = NoRow THEN NoOutcome
                 ELSE [req |-> Asking(row[k]), out |-> row[k].response]],
    asked <- [c \in Clients |->
                [key |-> IF Replaying(c) THEN call[c].key ELSE OtherKey,
                 req |-> Asking(call[c])]],
    answer <- [c \in Clients |-> IF Replaying(c) THEN call[c].reply ELSE NoReply]

(* The transactions of the replaying commands implement the abstract ledger
   step by step, whatever gates and previews run beside them.              *)
ImplementsIdempotentCommands == Ledger!Spec

(* Every call that was accepted ends: with an outcome, a conflict or a
   failure, never waiting for ever for the key of another one.             *)
EveryCallEnds ==
    \A c \in Clients : call[c].phase = "begun" ~> call[c].phase = "idle"

=============================================================================
