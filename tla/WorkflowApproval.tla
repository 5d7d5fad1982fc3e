-------------------------- MODULE WorkflowApproval --------------------------
(***************************************************************************)
(* One authored workflow version on its way to approval: its items, gate   *)
(* results, transition previews and approval records                       *)
(* (internal/project/workflow.go).                                         *)
(*                                                                         *)
(* A request first reads and evaluates outside any transaction, then       *)
(* begins one, and commits.  Rows carry the time their transaction began,  *)
(* which is what "the latest" goes by; a stamp is that time.               *)
(***************************************************************************)
EXTENDS Naturals, FiniteSets, TLC

CONSTANTS
    Clients,
    Items,      \* the items the promotion_preview gate requires
    Actors,
    Risks,      \* subset of {"normal", "high"}
    Keys,       \* subset of {"default", "fresh"}: how approvals are keyed
    MaxRows,    \* bound on the requests that begin a transaction
    NoRequest

GateNames == {"promotion_preview", "approval_gate", "live_mapping_gate"}

Stamps == 1..MaxRows

GateRows == [gate : GateNames, status : {"pass", "fail", "blocked"}, stamp : Stamps]

PreviewRows == [status : {"ready", "blocked"}, actor : Actors, stamp : Stamps]

(* A preview is named by its stamp; 0 is no preview. *)
ApprovalRows ==
    [decision : {"approved", "rejected"}, preview : 0..MaxRows, actor : Actors,
     risk : Risks, key : Keys, stamp : Stamps]

(* What a request will insert, with stamp 0 until its transaction begins; a
   live mapping gate between its two queries has read the approval only.   *)
GateRequests ==
    [gate : GateNames, status : {"pass", "fail", "blocked"}, stamp : Stamps \cup {0}]

StandsRequests == [stands : BOOLEAN, stamp : {0}]

PreviewRequests == [status : {"ready", "blocked"}, actor : Actors, stamp : Stamps \cup {0}]

ApprovalRequests ==
    [decision : {"approved", "rejected"}, preview : 0..MaxRows, actor : Actors,
     risk : Risks, key : Keys, stamp : Stamps \cup {0}]

Requests == GateRequests \cup StandsRequests \cup PreviewRequests \cup ApprovalRequests

ASSUME WorkflowAssumption ==
    /\ MaxRows \in Nat
    /\ Risks \subseteq {"normal", "high"}
    /\ Keys \subseteq {"default", "fresh"}
    /\ NoRequest \notin Requests

VARIABLES
    items,      \* workflow_items: status of each item
    gates,      \* gate_results
    previews,   \* workflow_transition_previews
    approvals,  \* approval_records
    request,    \* what each client's request has read and will insert
    clock       \* transactions begun so far

vars == <<items, gates, previews, approvals, request, clock>>

(* Every table holds rows the handlers of workflow.go can insert. *)
TypeOK ==
    /\ items \in [Items -> {"missing", "placeholder", "ready"}]
    /\ gates \subseteq GateRows
    /\ previews \subseteq PreviewRows
    /\ approvals \subseteq ApprovalRows
    /\ request \in [Clients -> Requests \cup {NoRequest}]
    /\ clock \in 0..MaxRows

-----------------------------------------------------------------------------
(* ORDER BY created_at DESC, id DESC LIMIT 1, as a set of at most one row. *)
Latest(rows) == {r \in rows : \A q \in rows : q.stamp <= r.stamp}

LatestGate(name) == Latest({g \in gates : g.gate = name})

(* evaluateWorkflowGate: blocked when an item is missing, fail when one is
   still the placeholder of the skeleton.                                  *)
EvaluateWorkflowGate ==
    IF \E i \in Items : items[i] = "missing" THEN "blocked"
    ELSE IF \E i \in Items : items[i] = "placeholder" THEN "fail"
    ELSE "pass"

(* resolveApprovalTransitionPreview: the one asked for, or the latest. *)
ResolvePreview(id) ==
    IF id = 0 THEN Latest(previews) ELSE {v \in previews : v.stamp = id}

(* Variant: the decision of the latest record is not looked at. *)
ApprovalStandsAnyDecision ==
    \E a \in Latest(approvals) :
        \E v \in ResolvePreview(a.preview) : v.status = "ready"

(* The latest record approves, on a ready preview. *)
ApprovalStands ==
    \E a \in Latest(approvals) :
        /\ a.decision = "approved"
        /\ \E v \in ResolvePreview(a.preview) : v.status = "ready"

EvaluateApprovalGate == IF ApprovalStands THEN "pass" ELSE "blocked"

(* evaluateLiveMappingGate, given whether the approval stood when read. *)
EvaluateLiveMappingGate(stands) ==
    IF stands /\ \E g \in LatestGate("promotion_preview") : g.status = "pass"
      THEN "pass" ELSE "blocked"

EvaluateTransitionPreview ==
    IF \E g \in LatestGate("promotion_preview") : g.status = "pass"
      THEN "ready" ELSE "blocked"

(* Variant: a high-risk approval by the requester is let through. *)
MayApproveOwn(decision, found, actor, risk) ==
    decision = "approved" => \E v \in found : v.status = "ready"

(* CreateApprovalRecord's checks: an approval needs a ready preview and, at
   high risk, another actor than the one who asked for the transition.     *)
MayApprove(decision, found, actor, risk) ==
    decision = "approved" =>
        \E v \in found : /\ v.status = "ready"
                         /\ risk = "high" => actor # v.actor

-----------------------------------------------------------------------------
Init ==
    /\ items = [i \in Items |-> "missing"]
    /\ gates = {}
    /\ previews = {}
    /\ approvals = {}
    /\ request = [c \in Clients |-> NoRequest]
    /\ clock = 0

(* CreateWorkflowVersion makes the version and its skeleton at once. *)
CreateWorkflowVersion ==
    /\ \A i \in Items : items[i] = "missing"
    /\ items' = [i \in Items |-> "placeholder"]
    /\ UNCHANGED <<gates, previews, approvals, request, clock>>

(* MarkWorkflowItemReady needs the item, and nothing else. *)
MarkWorkflowItemReady(i) ==
    /\ items[i] # "missing"
    /\ items' = [items EXCEPT ![i] = "ready"]
    /\ UNCHANGED <<gates, previews, approvals, request, clock>>

(* GetWorkflowVersion finds the version.  The bound leaves a transaction for
   every request.                                                          *)
CanAsk(c) ==
    /\ request[c] = NoRequest
    /\ items # [i \in Items |-> "missing"]
    /\ clock + Cardinality({d \in Clients : request[d] # NoRequest /\ request[d].stamp = 0})
         < MaxRows

Ask(c, row) ==
    /\ request' = [request EXCEPT ![c] = row]
    /\ UNCHANGED <<items, gates, previews, approvals, clock>>

(* RunWorkflowGate reads the items and evaluates. *)
RunWorkflowGate(c) ==
    /\ CanAsk(c)
    /\ Ask(c, [gate |-> "promotion_preview", status |-> EvaluateWorkflowGate, stamp |-> 0])

(* runApprovalBackedGate reads the latest approval and its preview ... *)
RunApprovalGate(c) ==
    /\ CanAsk(c)
    /\ Ask(c, [gate |-> "approval_gate", status |-> EvaluateApprovalGate, stamp |-> 0])

ReadApproval(c) ==
    /\ CanAsk(c)
    /\ Ask(c, [stands |-> ApprovalStands, stamp |-> 0])

(* ... and, for the live mapping gate, the promotion gate in a later query. *)
RunLiveMappingGate(c) ==
    /\ request[c] # NoRequest
    /\ "stands" \in DOMAIN request[c]
    /\ Ask(c, [gate |-> "live_mapping_gate",
                status |-> EvaluateLiveMappingGate(request[c].stands), stamp |-> 0])

PreviewWorkflowTransition(c, actor) ==
    /\ CanAsk(c)
    /\ Ask(c, [status |-> EvaluateTransitionPreview, actor |-> actor, stamp |-> 0])

(* CreateApprovalRecord resolves the preview and checks the decision. *)
CreateApprovalRecord(c, decision, id, actor, risk, key) ==
    LET found == ResolvePreview(id)
    IN  /\ CanAsk(c)
        /\ id # 0 => found # {}
        /\ MayApprove(decision, found, actor, risk)
        /\ \E preview \in IF found = {} THEN {0} ELSE {v.stamp : v \in found} :
             Ask(c, [decision |-> decision, preview |-> preview, actor |-> actor,
                     risk |-> risk, key |-> key, stamp |-> 0])

(* The transaction begins, and with it the time its rows will carry. *)
Begin(c) ==
    /\ request[c] # NoRequest
    /\ request[c].stamp = 0
    /\ "stands" \notin DOMAIN request[c]
    /\ clock < MaxRows
    /\ clock' = clock + 1
    /\ request' = [request EXCEPT ![c].stamp = clock + 1]
    /\ UNCHANGED <<items, gates, previews, approvals>>

Began(c) == request[c] # NoRequest /\ request[c].stamp # 0

(* insertGateResult and insertWorkflowTransitionPreview, then commit. *)
CommitGate(c) ==
    /\ Began(c)
    /\ "gate" \in DOMAIN request[c]
    /\ gates' = gates \cup {request[c]}
    /\ request' = [request EXCEPT ![c] = NoRequest]
    /\ UNCHANGED <<items, previews, approvals, clock>>

CommitPreview(c) ==
    /\ Began(c)
    /\ DOMAIN request[c] = {"status", "actor", "stamp"}
    /\ previews' = previews \cup {request[c]}
    /\ request' = [request EXCEPT ![c] = NoRequest]
    /\ UNCHANGED <<items, gates, approvals, clock>>

(* The default key is a function of the record, so that a record already
   made under its default key is replayed and not inserted again.          *)
Recorded(c) ==
    {a \in approvals : a.key = "default" /\ a = [request[c] EXCEPT !.stamp = a.stamp]}

CommitApproval(c) ==
    /\ Began(c)
    /\ "decision" \in DOMAIN request[c]
    /\ approvals' = IF Recorded(c) = {} THEN approvals \cup {request[c]}
                                        ELSE approvals
    /\ request' = [request EXCEPT ![c] = NoRequest]
    /\ UNCHANGED <<items, gates, previews, clock>>

(* The request fails before its commit and leaves nothing. *)
Abort(c) ==
    /\ request[c] # NoRequest
    /\ request' = [request EXCEPT ![c] = NoRequest]
    /\ UNCHANGED <<items, gates, previews, approvals, clock>>

Next ==
    \/ CreateWorkflowVersion
    \/ \E i \in Items : MarkWorkflowItemReady(i)
    \/ \E c \in Clients :
         \/ RunWorkflowGate(c)
         \/ RunApprovalGate(c)
         \/ ReadApproval(c)
         \/ RunLiveMappingGate(c)
         \/ \E actor \in Actors : PreviewWorkflowTransition(c, actor)
         \/ \E decision \in {"approved", "rejected"}, id \in 0..MaxRows,
               actor \in Actors, risk \in Risks, key \in Keys :
              CreateApprovalRecord(c, decision, id, actor, risk, key)
         \/ Begin(c)
         \/ CommitGate(c)
         \/ CommitPreview(c)
         \/ CommitApproval(c)
         \/ Abort(c)

Spec == Init /\ [][Next]_vars

-----------------------------------------------------------------------------
(* The approval and live mapping gates pass only where somebody approved. *)
GatesRestOnApproval ==
    \A g \in gates : g.gate # "promotion_preview" /\ g.status = "pass" =>
        \E a \in approvals : a.decision = "approved"

(* The chain behind a passed gate: it rests on an approval, that on a ready
   preview, made by another actor when the risk is high; a ready preview rests
   on a passed promotion_preview gate; and that gate passes only when every
   item it requires is more than the skeleton's placeholder.  However stale
   the reads of the requests in flight were, no link of it is ever missing. *)
ApprovalChain ==
    /\ GatesRestOnApproval
    /\ \A a \in approvals : a.decision = "approved" =>
         \E v \in previews : /\ v.stamp = a.preview
                             /\ v.status = "ready"
                             /\ a.risk = "high" => a.actor # v.actor
    /\ \A v \in previews : v.status = "ready" =>
         \E g \in gates : g.gate = "promotion_preview" /\ g.status = "pass"
    /\ \A g \in gates : g.gate = "promotion_preview" /\ g.status = "pass" =>
         \A i \in Items : items[i] = "ready"

(* The rows, seen by those who act on them. *)
Approval == INSTANCE ApprovalState WITH
    decision <- IF approvals = {} THEN "none"
                ELSE (CHOOSE a \in Latest(approvals) : TRUE).decision,
    approvalGate <- IF LatestGate("approval_gate") = {} THEN "none"
                    ELSE (CHOOSE g \in LatestGate("approval_gate") : TRUE).status,
    liveGate <- IF LatestGate("live_mapping_gate") = {} THEN "none"
                ELSE (CHOOSE g \in LatestGate("live_mapping_gate") : TRUE).status,
    everApproved <- \E a \in approvals : a.decision = "approved"

(* The tables behave as the component that execution relies on. *)
ImplementsApprovalState == Approval!Spec

(* Clients and actors are alike. *)
Symmetry == Permutations(Clients) \cup Permutations(Actors)

=============================================================================
