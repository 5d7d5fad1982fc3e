--------------------------- MODULE PooledCommands ---------------------------
(***************************************************************************)
(* Commands and the connection pool.  A command reads the version through  *)
(* the pool, keeps a connection for its transaction, and some commands     *)
(* take a second one while they hold the first: the replay of a runner     *)
(* preview, and the applies of a cutover, of the shim and of execution     *)
(* forwarding, which evaluate their gate inside the transaction.  The API  *)
(* server's requests share a pool and have a deadline; a CLI process has   *)
(* its own pool and none.                                                  *)
(*                                                                         *)
(* The runner preview, which inserts a run and writes its report, is       *)
(* modelled in full; of an apply only what it does with connections (its   *)
(* effects are in CutoverChain).                                           *)
(***************************************************************************)
EXTENDS Naturals, FiniteSets, FiniteSetsExt

CONSTANTS
    ApiCallers, CliCallers,
    MaxConnections,   \* connections of a pool
    Requests,         \* what is asked for: [kind, key, risk], the risk "" if not given
    HighRisk,         \* risks that the default policy of a preview, pause, does not allow
    MaxPreviews,      \* bound on the calls
    Free              \* no call, no run, no answer

Callers == ApiCallers \cup CliCallers

(* With one connection a command that reads inside its transaction waits    *)
(* for itself; the default is 30.                                           *)
ASSUME PoolAssumption == MaxConnections \in Nat /\ MaxConnections >= 2

VARIABLES
    caller,    \* the call each caller is at
    runs,      \* runs, by id: [key, risk]
    reports,   \* the artifact store's reports: [path, risk]
    recorded,  \* command_requests, by key: the risk asked for and the run
    nextRun    \* the sequence of run ids, which no rollback returns

poolVars == <<caller, runs, reports, recorded, nextRun>>

Idle == [kind |-> Free, at |-> Free, key |-> Free, risk |-> Free, run |-> Free, held |-> 0, answer |-> Free]

PoolInit ==
    /\ caller = [c \in Callers |-> Idle]
    /\ runs = [r \in {} |-> Free]
    /\ reports = {}
    /\ recorded = [k \in {} |-> Free]
    /\ nextRun = 1

-----------------------------------------------------------------------------
SharesPool(c) == IF c \in ApiCallers THEN ApiCallers ELSE {c}

HeldOf(pool) == MapThenSumSet(LAMBDA c : caller[c].held, pool)

Available(c) == HeldOf(SharesPool(c)) < MaxConnections

WaitsForConnection(c) == caller[c].at \in {"version", "begin", "load", "gate"} /\ ~Available(c)

(* Variant: the deadline bounds the wait for the transaction only. *)
DeadlineToBegin(c) == c \in ApiCallers /\ caller[c].at \in {"version", "begin"}

requestTimeout(c) == c \in ApiCallers

At(c, step) == caller[c].at = step

Goes(c, step) == caller' = [caller EXCEPT ![c].at = step]

(* The deferred rollback returns the transaction's connection on every      *)
(* path; of a call that ends without a run nothing is kept.                 *)
Ends(c, answer, run) ==
    caller' = [caller EXCEPT ![c] = IF run = Free THEN Idle
                                    ELSE [@ EXCEPT !.at = Free, !.run = run, !.answer = answer, !.held = 0]]

(* A transaction that has inserted the key's row and not ended. *)
Reserves(c, key) == caller[c].key = key /\ caller[c].at \in {"insert", "report", "gate", "gating", "commit"}

preflightBlocked(call) == call.kind = "preview" /\ call.risk \in HighRisk

normalizeRisk(risk) == IF risk = "" THEN "low" ELSE risk

Started == Cardinality({c \in Callers : ~At(c, Free)})

-----------------------------------------------------------------------------
CallPooled(c) ==
    /\ At(c, Free)
    /\ nextRun + Started <= MaxPreviews
    /\ \E r \in Requests :
         caller' = [caller EXCEPT ![c] = [Idle EXCEPT !.kind = r.kind, !.at = "version", !.key = <<r.kind, r.key>>,
                                                      !.risk = normalizeRisk(r.risk)]]
    /\ UNCHANGED <<runs, reports, recorded, nextRun>>

(* The version is read with a connection that is returned at once. *)
GetVersion(c) ==
    /\ At(c, "version")
    /\ Available(c)
    /\ IF preflightBlocked(caller[c]) THEN Ends(c, "blocked", Free) ELSE Goes(c, "begin")
    /\ UNCHANGED <<runs, reports, recorded, nextRun>>

BeginPooled(c) ==
    /\ At(c, "begin")
    /\ Available(c)
    /\ caller' = [caller EXCEPT ![c].at = "reserve", ![c].held = 1]
    /\ UNCHANGED <<runs, reports, recorded, nextRun>>

(* Variant: a key that is there already does not end the command. *)
ReserveAnyway(c) ==
    /\ At(c, "reserve")
    /\ \A d \in Callers \ {c} : ~Reserves(d, caller[c].key)
    /\ Goes(c, IF caller[c].kind = "preview" THEN "insert" ELSE "gate")
    /\ UNCHANGED <<runs, reports, recorded, nextRun>>

(* A key that is being inserted makes the statement wait.                  *)
ReservePooled(c) ==
    LET call == caller[c]
    IN  /\ At(c, "reserve")
        /\ \A d \in Callers \ {c} : ~Reserves(d, call.key)
        /\ IF call.key \notin DOMAIN recorded
           THEN Goes(c, IF call.kind = "preview" THEN "insert" ELSE "gate")
           ELSE IF recorded[call.key].risk # call.risk THEN Ends(c, "conflict", Free)
           ELSE IF call.kind = "preview" THEN Goes(c, "load")
           ELSE Ends(c, "replayed", Free)
        /\ UNCHANGED <<runs, reports, recorded, nextRun>>

(* The replayed run is read through the pool, by the key in its metadata.  *)
loadRunnerPreviewByIdempotency(c) ==
    /\ At(c, "load")
    /\ Available(c)
    /\ \E r \in DOMAIN runs :
         /\ runs[r].key = caller[c].key
         /\ \A q \in DOMAIN runs : runs[q].key = caller[c].key => q <= r
         /\ Ends(c, "replayed", r)
    /\ UNCHANGED <<runs, reports, recorded, nextRun>>

insertRunnerPreviewRun(c) ==
    /\ At(c, "insert")
    /\ caller' = [caller EXCEPT ![c].at = "report", ![c].run = nextRun]
    /\ nextRun' = nextRun + 1
    /\ UNCHANGED <<runs, reports, recorded>>

ReportPath(run) == run

writeRunnerPreviewArtifact(c) ==
    LET path == ReportPath(caller[c].run)
    IN  /\ At(c, "report")
        /\ reports' = {f \in reports : f.path # path}
                        \cup {[path |-> path, run |-> caller[c].run, risk |-> caller[c].risk]}
        /\ Goes(c, "commit")
        /\ UNCHANGED <<runs, recorded, nextRun>>

(* The gate of an apply: a query takes a connection and returns it. *)
TakeGateConnection(c) ==
    /\ At(c, "gate")
    /\ Available(c)
    /\ caller' = [caller EXCEPT ![c].at = "gating", ![c].held = 2]
    /\ UNCHANGED <<runs, reports, recorded, nextRun>>

ReturnGateConnection(c) ==
    /\ At(c, "gating")
    /\ \E next \in {"gate", "commit"} : caller' = [caller EXCEPT ![c].at = next, ![c].held = 1]
    /\ UNCHANGED <<runs, reports, recorded, nextRun>>

Committed(c) ==
    LET call == caller[c]
    IN  /\ recorded' = [k \in DOMAIN recorded \cup {call.key} |->
                          IF k = call.key THEN [risk |-> call.risk, run |-> call.run] ELSE recorded[k]]
        /\ runs' = IF call.kind = "preview"
                   THEN [r \in DOMAIN runs \cup {call.run} |->
                           IF r = call.run THEN [key |-> call.key, risk |-> call.risk] ELSE runs[r]]
                   ELSE runs

CommitPooled(c) ==
    /\ At(c, "commit")
    /\ Committed(c)
    /\ Ends(c, "created", caller[c].run)
    /\ UNCHANGED <<reports, nextRun>>

(* The commit takes effect and its answer is lost. *)
CommitUnheard(c) ==
    /\ At(c, "commit")
    /\ Committed(c)
    /\ Ends(c, "error", Free)
    /\ UNCHANGED <<reports, nextRun>>

(* A statement fails or, in the server, the request's deadline passes, also *)
(* while the call waits for a connection; the transaction is rolled back.   *)
FailPooled(c) ==
    /\ ~At(c, Free)
    /\ requestTimeout(c) \/ ~WaitsForConnection(c)
    /\ Ends(c, "error", Free)
    /\ UNCHANGED <<runs, reports, recorded, nextRun>>

PoolNext ==
    \E c \in Callers :
        \/ CallPooled(c) \/ GetVersion(c) \/ BeginPooled(c) \/ ReservePooled(c)
        \/ loadRunnerPreviewByIdempotency(c) \/ insertRunnerPreviewRun(c) \/ writeRunnerPreviewArtifact(c)
        \/ TakeGateConnection(c) \/ ReturnGateConnection(c)
        \/ CommitPooled(c) \/ CommitUnheard(c) \/ FailPooled(c)

-----------------------------------------------------------------------------
PoolTypeOK ==
    /\ \A c \in Callers : caller[c].held \in 0..2 /\ caller[c].risk # ""
    /\ DOMAIN runs \subseteq 1..nextRun
    /\ \A f \in reports : f.run \in 1..nextRun
    /\ DOMAIN recorded \subseteq {<<r.kind, r.key>> : r \in Requests}

(* Connections in use are those of calls in progress: every end of a call,  *)
(* by commit, replay, refusal or failure, returns what it holds, so a pool  *)
(* is whole again when its calls are over.                                  *)
ConnectionsReturned ==
    \A c \in Callers :
        /\ HeldOf(SharesPool(c)) <= MaxConnections
        /\ At(c, Free) => caller[c].held = 0

(* Commands that read through the pool inside their transactions can use it *)
(* up and wait for each other.  Whenever a call waits for a connection,     *)
(* either some call that holds one is not itself waiting, or the deadline   *)
(* of the requests ends the wait (requestTimeoutMiddleware); a CLI process, *)
(* which has no deadline, never waits for itself.                           *)
NoEndlessWait ==
    \A c \in Callers :
        WaitsForConnection(c) =>
            \E d \in SharesPool(c) :
                caller[d].held > 0 /\ (requestTimeout(d) \/ ~WaitsForConnection(d))

(* A key names one run: a retry, at any time and after any failure, is      *)
(* answered with the run that the first call made for the same request      *)
(* (PreviewRunner, loadRunnerPreviewByIdempotency).                         *)
PreviewIsRepeated ==
    /\ \A q, r \in DOMAIN runs : runs[q].key = runs[r].key => q = r
    /\ \A c \in Callers :
         caller[c].kind = "preview" /\ caller[c].answer \in {"created", "replayed"} =>
            /\ recorded[caller[c].key] = [risk |-> caller[c].risk, run |-> caller[c].run]
            /\ runs[caller[c].run] = [key |-> caller[c].key, risk |-> caller[c].risk]

(* Every run has its own report, which no later, failed or repeated preview *)
(* of the version overwrites (writeAndInsertRunnerPreviewArtifact).         *)
RunHasItsReport ==
    \A r \in DOMAIN runs : [path |-> ReportPath(r), run |-> r, risk |-> runs[r].risk] \in reports

(* The pool is used soundly: what is taken is returned, and no call waits for
   ever (pgxpool, requestTimeoutMiddleware).                               *)
PoolIsSound == PoolTypeOK /\ ConnectionsReturned /\ NoEndlessWait

(* A runner preview is made once for its key and keeps its report
   (PreviewRunner).                                                        *)
PreviewIsKept == PreviewIsRepeated /\ RunHasItsReport

=============================================================================
