----------------------- MODULE WorkflowApprovalProofs -----------------------
(***************************************************************************)
(* The chain behind an approval holds for any clients, items, actors and   *)
(* any number of rows, and the tables implement ApprovalState, although    *)
(* every request acts on what it read before its transaction.              *)
(***************************************************************************)
EXTENDS WorkflowApproval, TLAPS

(* What a request in flight relies on was true when it read, and still is:
   records are never removed and ready items stay ready.                   *)
RequestsGrounded ==
    \A c \in Clients :
        /\ request[c] \in GateRequests /\ request[c].status = "pass" =>
             IF request[c].gate = "promotion_preview"
             THEN \A i \in Items : items[i] = "ready"
             ELSE \E a \in approvals : a.decision = "approved"
        /\ request[c] \in StandsRequests /\ request[c].stands =>
             \E a \in approvals : a.decision = "approved"
        /\ request[c] \in PreviewRequests /\ request[c].status = "ready" =>
             \E g \in gates : g.gate = "promotion_preview" /\ g.status = "pass"
        /\ request[c] \in ApprovalRequests /\ request[c].decision = "approved" =>
             \E v \in previews : /\ v.stamp = request[c].preview
                                 /\ v.status = "ready"
                                 /\ request[c].risk = "high" => request[c].actor # v.actor

(* Only the promotion_preview gate can fail. *)
OthersNeverFail ==
    /\ \A g \in gates : g.status = "fail" => g.gate = "promotion_preview"
    /\ \A c \in Clients :
         request[c] \in GateRequests /\ request[c].status = "fail" =>
             request[c].gate = "promotion_preview"

(* A stamp is one transaction's: of the rows in one table no two share it, nor
   does a transaction in flight with a row or with another.                *)
StampsUnique ==
    /\ \A r \in gates \cup previews \cup approvals : r.stamp <= clock
    /\ \A v, w \in previews : v.stamp = w.stamp => v = w
    /\ \A c \in Clients : Began(c) =>
         /\ request[c].stamp <= clock
         /\ \A r \in gates \cup previews \cup approvals : r.stamp # request[c].stamp
         /\ \A d \in Clients : Began(d) /\ request[d].stamp = request[c].stamp => c = d

(* Where there are rows, one of them is the latest. *)
LatestExists ==
    /\ approvals # {} => Latest(approvals) # {}
    /\ \A name \in GateNames :
         {g \in gates : g.gate = name} # {} => LatestGate(name) # {}

(* The inductive invariant. *)
ApprovalInv ==
    /\ TypeOK
    /\ RequestsGrounded
    /\ OthersNeverFail
    /\ StampsUnique
    /\ LatestExists
    /\ ApprovalChain

-----------------------------------------------------------------------------
(* A new version has no rows and no requests. *)
LEMMA ApprovalInit == Init => ApprovalInv
  <1> SUFFICES ASSUME Init PROVE ApprovalInv
    BY Zenon
  <1>1. TypeOK
    BY WorkflowAssumption DEF Init, TypeOK
  <1>2. \A c \in Clients : request[c] \notin Requests /\ request[c] = NoRequest
    BY WorkflowAssumption, Zenon DEF Init
  <1>3. RequestsGrounded /\ OthersNeverFail
    BY <1>2, Zenon DEF Init, RequestsGrounded, OthersNeverFail, Requests
  <1>4. StampsUnique
    BY <1>2, Zenon DEF Init, StampsUnique, Began
  <1>5. LatestExists /\ ApprovalChain
    BY Zenon DEF Init, LatestExists, ApprovalChain, GatesRestOnApproval
  <1> QED
    BY <1>1, <1>3, <1>4, <1>5, Zenon DEF ApprovalInv

(* The kind of a request shows in its fields. *)
LEMMA RequestKinds ==
    ASSUME NEW r \in Requests
    PROVE  /\ "gate" \in DOMAIN r => r \in GateRequests
           /\ "stands" \in DOMAIN r => r \in StandsRequests
           /\ DOMAIN r = {"status", "actor", "stamp"} => r \in PreviewRequests
           /\ "decision" \in DOMAIN r => r \in ApprovalRequests
           /\ r \in StandsRequests => r.stamp = 0 /\ "stands" \in DOMAIN r
           /\ r.stamp \in Stamps \cup {0}
  BY DEF Requests, GateRequests, StandsRequests, PreviewRequests, ApprovalRequests

(* No request is of two kinds. *)
LEMMA KindsDiffer ==
    ASSUME NEW r \in Requests
    PROVE  /\ r \in GateRequests => r \notin StandsRequests \cup PreviewRequests \cup ApprovalRequests
           /\ r \in StandsRequests => r \notin GateRequests \cup PreviewRequests \cup ApprovalRequests
           /\ r \in PreviewRequests => r \notin GateRequests \cup StandsRequests \cup ApprovalRequests
           /\ r \in ApprovalRequests => r \notin GateRequests \cup StandsRequests \cup PreviewRequests
  BY DEF GateRequests, StandsRequests, PreviewRequests, ApprovalRequests

(* A row that is inserted is the latest, or leaves the latest what it was: the
   stamp decides, not the order of the commits.                            *)
LEMMA LatestAfter ==
    ASSUME NEW S, NEW r, \A q \in S \cup {r} : q.stamp \in Nat,
           S # {} => Latest(S) # {}, \A q \in S : q.stamp # r.stamp
    PROVE  /\ Latest(S \cup {r}) # {}
           /\ \/ Latest(S \cup {r}) = {r}
              \/ S # {} /\ Latest(S \cup {r}) = Latest(S)
  <1>1. CASE S = {}
    BY <1>1 DEF Latest
  <1>2. CASE S # {}
    <2>1. PICK m \in Latest(S) : TRUE
      BY <1>2, Zenon
    <2>2. m \in S /\ \A q \in S : q.stamp <= m.stamp
      BY <2>1, Zenon DEF Latest
    <2>3. CASE r.stamp < m.stamp
      <3>1. Latest(S \cup {r}) = Latest(S)
        BY <2>2, <2>3 DEF Latest
      <3> QED
        BY <1>2, <2>1, <3>1, Zenon
    <2>4. CASE m.stamp < r.stamp
      <3>1. \A q \in S : q.stamp < r.stamp
        BY <2>2, <2>4
      <3>2. \A q \in S : ~(r.stamp <= q.stamp)
        BY <3>1
      <3>3. r.stamp <= r.stamp
        OBVIOUS
      <3>4. \A q \in S \cup {r} : q.stamp <= r.stamp
        BY <3>1, <3>3
      <3>5. Latest(S \cup {r}) = {r}
        BY <3>2, <3>4, Zenon DEF Latest
      <3> QED
        BY <3>5, Zenon
    <2>5. r.stamp < m.stamp \/ m.stamp < r.stamp
      BY <2>2
    <2> QED
      BY <2>3, <2>4, <2>5, Zenon
  <1> QED
    BY <1>1, <1>2, Zenon

(* A step that leaves the tables alone and puts a request, of stamp 0, in the
   place of none: what the reading half of a command does.                 *)
LEMMA AskInv ==
    ASSUME ApprovalInv, NEW c \in Clients, NEW r \in Requests, Ask(c, r), r.stamp = 0,
           r \in GateRequests =>
             /\ r.status = "pass" =>
                  IF r.gate = "promotion_preview"
                  THEN \A i \in Items : items[i] = "ready"
                  ELSE \E a \in approvals : a.decision = "approved"
             /\ r.status = "fail" => r.gate = "promotion_preview",
           r \in StandsRequests /\ r.stands => \E a \in approvals : a.decision = "approved",
           r \in PreviewRequests /\ r.status = "ready" =>
             \E g \in gates : g.gate = "promotion_preview" /\ g.status = "pass",
           r \in ApprovalRequests /\ r.decision = "approved" =>
             \E v \in previews : /\ v.stamp = r.preview
                                 /\ v.status = "ready"
                                 /\ r.risk = "high" => r.actor # v.actor
    PROVE  ApprovalInv'
  <1>1. /\ request' \in [Clients -> Requests \cup {NoRequest}]
        /\ request'[c] = r
        /\ \A d \in Clients \ {c} : request'[d] = request[d]
        /\ UNCHANGED <<items, gates, previews, approvals, clock>>
    BY Zenon DEF Ask, ApprovalInv, TypeOK
  <1>2. TypeOK'
    BY <1>1, Zenon DEF ApprovalInv, TypeOK
  <1>3. RequestsGrounded'
    BY <1>1 DEF ApprovalInv, RequestsGrounded
  <1>4. OthersNeverFail'
    BY <1>1 DEF ApprovalInv, OthersNeverFail
  <1>5. StampsUnique'
    BY <1>1 DEF ApprovalInv, StampsUnique, Began
  <1>6. LatestExists' /\ ApprovalChain'
    BY <1>1, Zenon DEF ApprovalInv, LatestExists, LatestGate, ApprovalChain, GatesRestOnApproval
  <1> QED
    BY <1>2, <1>3, <1>4, <1>5, <1>6, Zenon DEF ApprovalInv

(* The gates look before they begin a transaction, and what they find of
   items, approvals and gate results is there.                             *)
LEMMA GatesAskInv ==
    ASSUME ApprovalInv, NEW c \in Clients,
           RunWorkflowGate(c) \/ RunApprovalGate(c) \/ ReadApproval(c) \/ RunLiveMappingGate(c)
    PROVE  ApprovalInv'
  <1>1. ApprovalStands \in BOOLEAN /\ (ApprovalStands => \E a \in approvals : a.decision = "approved")
    BY Zenon DEF ApprovalStands, Latest
  <1>2. CASE RunWorkflowGate(c)
    <2> DEFINE r == [gate |-> "promotion_preview", status |-> EvaluateWorkflowGate, stamp |-> 0]
    <2>1. EvaluateWorkflowGate \in {"pass", "fail", "blocked"}
          /\ (EvaluateWorkflowGate = "pass" => \A i \in Items : items[i] = "ready")
      BY Zenon DEF EvaluateWorkflowGate, ApprovalInv, TypeOK
    <2>2. r \in GateRequests /\ r \in Requests
      BY <2>1, Zenon DEF GateRequests, GateNames, Requests
    <2>3. /\ Ask(c, r) /\ r.stamp = 0 /\ r.gate = "promotion_preview"
          /\ r.status = EvaluateWorkflowGate
      BY <1>2, Zenon DEF RunWorkflowGate
    <2> HIDE DEF r
    <2> QED
      BY <2>1, <2>2, <2>3, KindsDiffer, AskInv, Zenon
  <1>3. CASE RunApprovalGate(c)
    <2> DEFINE r == [gate |-> "approval_gate", status |-> EvaluateApprovalGate, stamp |-> 0]
    <2>1. EvaluateApprovalGate \in {"pass", "blocked"}
          /\ (EvaluateApprovalGate = "pass" => \E a \in approvals : a.decision = "approved")
      BY <1>1, Zenon DEF EvaluateApprovalGate
    <2>2. r \in GateRequests /\ r \in Requests
      BY <2>1, Zenon DEF GateRequests, GateNames, Requests
    <2>3. /\ Ask(c, r) /\ r.stamp = 0 /\ r.gate = "approval_gate"
          /\ r.status = EvaluateApprovalGate
      BY <1>3, Zenon DEF RunApprovalGate
    <2> HIDE DEF r
    <2> QED
      BY <2>1, <2>2, <2>3, KindsDiffer, AskInv, Zenon
  <1>4. CASE ReadApproval(c)
    <2> DEFINE r == [stands |-> ApprovalStands, stamp |-> 0]
    <2>1. r \in StandsRequests /\ r \in Requests
      BY <1>1, Zenon DEF StandsRequests, Requests
    <2>2. Ask(c, r) /\ r.stamp = 0 /\ r.stands = ApprovalStands
      BY <1>4, Zenon DEF ReadApproval
    <2> HIDE DEF r
    <2> QED
      BY <1>1, <2>1, <2>2, KindsDiffer, AskInv, Zenon
  <1>5. CASE RunLiveMappingGate(c)
    <2> DEFINE status == EvaluateLiveMappingGate(request[c].stands)
               r == [gate |-> "live_mapping_gate", status |-> status, stamp |-> 0]
    <2>1. request[c] \in StandsRequests
      BY <1>5, RequestKinds, Zenon DEF RunLiveMappingGate, ApprovalInv, TypeOK
    <2>2. status \in {"pass", "blocked"}
          /\ (status = "pass" => \E a \in approvals : a.decision = "approved")
      BY <2>1, Zenon DEF EvaluateLiveMappingGate, ApprovalInv, RequestsGrounded
    <2>3. r \in GateRequests /\ r \in Requests
      BY <2>2, Zenon DEF GateRequests, GateNames, Requests
    <2>4. /\ Ask(c, r) /\ r.stamp = 0 /\ r.gate = "live_mapping_gate" /\ r.status = status
      BY <1>5, Zenon DEF RunLiveMappingGate
    <2> HIDE DEF r, status
    <2> QED
      BY <2>2, <2>3, <2>4, KindsDiffer, AskInv, Zenon
  <1> QED
    BY <1>2, <1>3, <1>4, <1>5, Zenon

(* A preview is ready only where the promotion gate has passed. *)
LEMMA PreviewAskInv ==
    ASSUME ApprovalInv, NEW c \in Clients, NEW actor \in Actors,
           PreviewWorkflowTransition(c, actor)
    PROVE  ApprovalInv'
  <1> DEFINE r == [status |-> EvaluateTransitionPreview, actor |-> actor, stamp |-> 0]
  <1>1. EvaluateTransitionPreview \in {"ready", "blocked"}
        /\ (EvaluateTransitionPreview = "ready" =>
              \E g \in gates : g.gate = "promotion_preview" /\ g.status = "pass")
    BY Zenon DEF EvaluateTransitionPreview, LatestGate, Latest
  <1>2. r \in PreviewRequests /\ r \in Requests
    BY <1>1, Zenon DEF PreviewRequests, Requests
  <1>3. Ask(c, r) /\ r.stamp = 0 /\ r.status = EvaluateTransitionPreview
    BY Zenon DEF PreviewWorkflowTransition
  <1> HIDE DEF r
  <1> QED
    BY <1>1, <1>2, <1>3, KindsDiffer, AskInv, Zenon

(* At most one preview answers to an id, so that the preview whose status and
   actor were checked is the one the record names.                         *)
LEMMA OnePreviewFound ==
    ASSUME ApprovalInv, NEW id \in 0..MaxRows,
           NEW v \in ResolvePreview(id), NEW w \in ResolvePreview(id)
    PROVE  v = w /\ v \in previews
  <1>1. v \in previews /\ w \in previews
    BY Zenon DEF ResolvePreview, Latest
  <1>2. v.stamp \in Nat /\ w.stamp \in Nat
    BY <1>1, WorkflowAssumption DEF ApprovalInv, TypeOK, PreviewRows, Stamps
  <1>3. v.stamp = w.stamp
    <2>1. CASE id = 0
      <3>1. v.stamp <= w.stamp /\ w.stamp <= v.stamp
        BY <1>1, <2>1, Zenon DEF ResolvePreview, Latest
      <3> QED
        BY <1>2, <3>1
    <2>2. CASE id # 0
      BY <2>2, Zenon DEF ResolvePreview
    <2> QED
      BY <2>1, <2>2, Zenon
  <1> QED
    BY <1>1, <1>3, Zenon DEF ApprovalInv, StampsUnique

(* An approval is asked for on a ready preview of somebody else at high risk. *)
LEMMA ApprovalAskInv ==
    ASSUME ApprovalInv, NEW c \in Clients, NEW decision \in {"approved", "rejected"},
           NEW id \in 0..MaxRows, NEW actor \in Actors, NEW risk \in Risks, NEW key \in Keys,
           CreateApprovalRecord(c, decision, id, actor, risk, key)
    PROVE  ApprovalInv'
  <1> DEFINE found == ResolvePreview(id)
  <1>1. PICK preview \in IF found = {} THEN {0} ELSE {v.stamp : v \in found} :
          Ask(c, [decision |-> decision, preview |-> preview, actor |-> actor,
                  risk |-> risk, key |-> key, stamp |-> 0])
    BY Zenon DEF CreateApprovalRecord
  <1> DEFINE r == [decision |-> decision, preview |-> preview, actor |-> actor,
                   risk |-> risk, key |-> key, stamp |-> 0]
  <1>2. \A v \in found : v \in previews /\ v.stamp \in 0..MaxRows
    BY OnePreviewFound DEF ApprovalInv, TypeOK, PreviewRows, Stamps
  <1>3. preview \in 0..MaxRows
    BY <1>2, WorkflowAssumption
  <1>4. r \in ApprovalRequests /\ r \in Requests
    BY <1>3, Zenon DEF ApprovalRequests, Requests
  <1>5. decision = "approved" =>
          \E v \in previews : /\ v.stamp = preview
                              /\ v.status = "ready"
                              /\ risk = "high" => actor # v.actor
    <2> SUFFICES ASSUME decision = "approved"
                 PROVE  \E v \in previews : /\ v.stamp = preview
                                            /\ v.status = "ready"
                                            /\ risk = "high" => actor # v.actor
      BY Zenon
    <2>1. PICK v \in found : v.status = "ready" /\ (risk = "high" => actor # v.actor)
      BY Zenon DEF CreateApprovalRecord, MayApprove
    <2>2. PICK w \in found : preview = w.stamp
      BY <2>1, <1>1, Zenon
    <2> QED
      BY <2>1, <2>2, OnePreviewFound, Zenon
  <1>6. /\ Ask(c, r) /\ r.stamp = 0 /\ r.decision = decision /\ r.preview = preview
        /\ r.risk = risk /\ r.actor = actor
    BY <1>1, Zenon
  <1> HIDE DEF r, found
  <1> QED
    BY <1>4, <1>5, <1>6, KindsDiffer, AskInv, Zenon

(* A transaction begins with a stamp nobody has. *)
LEMMA BeginInv ==
    ASSUME ApprovalInv, NEW c \in Clients, Begin(c)
    PROVE  ApprovalInv'
  <1> DEFINE r == request[c]
             q == [r EXCEPT !.stamp = clock + 1]
  <1>1. /\ r \in Requests /\ r \notin StandsRequests /\ r.stamp = 0
        /\ clock \in 0..MaxRows /\ clock < MaxRows /\ clock' = clock + 1
        /\ clock + 1 \in Stamps
        /\ UNCHANGED <<items, gates, previews, approvals>>
    BY RequestKinds, WorkflowAssumption DEF Begin, ApprovalInv, TypeOK, Stamps
  <1>2. /\ r \in GateRequests => /\ q \in GateRequests
                                 /\ q.gate = r.gate /\ q.status = r.status
        /\ r \in PreviewRequests => q \in PreviewRequests /\ q.status = r.status
        /\ r \in ApprovalRequests =>
             /\ q \in ApprovalRequests /\ q.decision = r.decision
             /\ q.preview = r.preview /\ q.risk = r.risk /\ q.actor = r.actor
        /\ q.stamp = clock + 1
    BY <1>1, Zenon DEF Requests, GateRequests, PreviewRequests, ApprovalRequests
  <1>3. q \in Requests
    BY <1>1, <1>2, Zenon DEF Requests
  <1>4. /\ request' \in [Clients -> Requests \cup {NoRequest}]
        /\ request'[c] = q
        /\ \A d \in Clients \ {c} : request'[d] = request[d]
    BY <1>3, Zenon DEF Begin, ApprovalInv, TypeOK
  <1> HIDE DEF q
  <1>5. TypeOK'
    BY <1>1, <1>4, WorkflowAssumption DEF ApprovalInv, TypeOK
  <1>6. RequestsGrounded'
    BY <1>1, <1>2, <1>3, <1>4, KindsDiffer DEF ApprovalInv, RequestsGrounded, Requests
  <1>7. OthersNeverFail'
    BY <1>1, <1>2, <1>3, <1>4, KindsDiffer DEF ApprovalInv, OthersNeverFail, Requests
  <1>8. StampsUnique'
    <2>1. \A s \in gates \cup previews \cup approvals : s.stamp \in Nat /\ s.stamp <= clock
      BY WorkflowAssumption
         DEF ApprovalInv, TypeOK, StampsUnique, GateRows, PreviewRows, ApprovalRows, Stamps
    <2>2. \A d \in Clients \ {c} : Began(d) => request[d].stamp \in Nat /\ request[d].stamp <= clock
      BY RequestKinds, WorkflowAssumption
         DEF ApprovalInv, TypeOK, StampsUnique, Began, Stamps
    <2>3. \A d \in Clients \ {c} : Began(d)' <=> Began(d)
      BY <1>4, Zenon DEF Began
    <2>4. \A s \in gates \cup previews \cup approvals : s.stamp # clock + 1 /\ s.stamp <= clock + 1
      BY <1>1, <2>1
    <2>5. \A d \in Clients \ {c} : Began(d) =>
            request[d].stamp # clock + 1 /\ request[d].stamp <= clock + 1
      BY <1>1, <2>2
    <2> QED
      BY <1>1, <1>2, <1>4, <2>3, <2>4, <2>5 DEF ApprovalInv, StampsUnique
  <1>9. LatestExists' /\ ApprovalChain'
    BY <1>1, Zenon DEF ApprovalInv, LatestExists, LatestGate, ApprovalChain, GatesRestOnApproval
  <1> QED
    BY <1>5, <1>6, <1>7, <1>8, <1>9, Zenon DEF ApprovalInv

(* What the end of a request does to the requests: one is gone. *)
LEMMA Ended ==
    ASSUME ApprovalInv, NEW c \in Clients, request' = [request EXCEPT ![c] = NoRequest]
    PROVE  /\ request' \in [Clients -> Requests \cup {NoRequest}]
           /\ request'[c] \notin Requests /\ ~Began(c)'
           /\ \A d \in Clients \ {c} : request'[d] = request[d] /\ (Began(d)' <=> Began(d))
  BY WorkflowAssumption, Zenon DEF ApprovalInv, TypeOK, Began

(* A request that ends while the tables only grow leaves the other requests
   grounded.                                                               *)
LEMMA OthersGrounded ==
    ASSUME ApprovalInv, NEW c \in Clients, request' = [request EXCEPT ![c] = NoRequest],
           gates \subseteq gates', previews \subseteq previews', approvals \subseteq approvals',
           UNCHANGED items
    PROVE  RequestsGrounded'
  <1>1. /\ request'[c] \notin Requests
        /\ \A d \in Clients \ {c} : request'[d] = request[d]
    BY Ended, Zenon
  <1> SUFFICES ASSUME NEW d \in Clients \ {c}
               PROVE  RequestsGrounded!(d)'
    BY <1>1 DEF RequestsGrounded, Requests
  <1> QED
    BY <1>1 DEF ApprovalInv, RequestsGrounded

(* A gate result is committed. *)
LEMMA CommitGateInv ==
    ASSUME ApprovalInv, NEW c \in Clients, CommitGate(c)
    PROVE  ApprovalInv'
  <1> DEFINE r == request[c]
  <1>1. /\ Began(c)
        /\ gates' = gates \cup {r}
        /\ request' = [request EXCEPT ![c] = NoRequest]
        /\ UNCHANGED <<items, previews, approvals, clock>>
    BY Zenon DEF CommitGate
  <1>2. r \in GateRequests /\ r \in GateRows
    BY RequestKinds, Zenon DEF CommitGate, Began, ApprovalInv, TypeOK, GateRequests, GateRows
  <1>3. /\ request' \in [Clients -> Requests \cup {NoRequest}]
        /\ request'[c] \notin Requests /\ ~Began(c)'
        /\ \A d \in Clients \ {c} : request'[d] = request[d] /\ (Began(d)' <=> Began(d))
    BY <1>1, Ended, Zenon
  <1>4. TypeOK'
    BY <1>1, <1>2, <1>3, Zenon DEF ApprovalInv, TypeOK
  <1>5. RequestsGrounded'
    BY <1>1, OthersGrounded, Zenon
  <1>6. OthersNeverFail'
    BY <1>1, <1>2, <1>3, Zenon DEF ApprovalInv, OthersNeverFail, Requests
  <1>7. StampsUnique'
    BY <1>1, <1>3 DEF ApprovalInv, StampsUnique
  <1>8. LatestExists'
    <2>1. approvals' # {} => Latest(approvals') # {}
      BY <1>1, Zenon DEF ApprovalInv, LatestExists
    <2>2. ASSUME NEW name \in GateNames, {g \in gates' : g.gate = name} # {}
          PROVE  LatestGate(name)' # {}
      <3> DEFINE S == {g \in gates : g.gate = name}
      <3>1. CASE r.gate # name
        <4>1. {g \in gates' : g.gate = name} = S
          BY <1>1, <3>1, Zenon
        <4> QED
          BY <2>2, <4>1, Zenon DEF ApprovalInv, LatestExists, LatestGate
      <3>2. CASE r.gate = name
        <4>1. {g \in gates' : g.gate = name} = S \cup {r}
          BY <1>1, <3>2, Zenon
        <4>2. \A q \in S \cup {r} : q.stamp \in Nat
          BY <1>2, WorkflowAssumption DEF ApprovalInv, TypeOK, GateRows, Stamps
        <4>3. \A q \in S : q.stamp # r.stamp
          BY <1>1, Zenon DEF ApprovalInv, StampsUnique
        <4>4. S # {} => Latest(S) # {}
          BY Zenon DEF ApprovalInv, LatestExists, LatestGate
        <4> HIDE DEF S
        <4>5. Latest(S \cup {r}) # {}
          BY <4>2, <4>3, <4>4, LatestAfter, Zenon
        <4> QED
          BY <4>1, <4>5, Zenon DEF LatestGate
      <3> QED
        BY <3>1, <3>2, Zenon
    <2> QED
      BY <2>1, <2>2, Zenon DEF LatestExists
  <1>9. ApprovalChain'
    BY <1>1, <1>2 DEF ApprovalInv, RequestsGrounded, ApprovalChain, GatesRestOnApproval
  <1> QED
    BY <1>4, <1>5, <1>6, <1>7, <1>8, <1>9, Zenon DEF ApprovalInv

(* A transition preview is committed. *)
LEMMA CommitPreviewInv ==
    ASSUME ApprovalInv, NEW c \in Clients, CommitPreview(c)
    PROVE  ApprovalInv'
  <1> DEFINE r == request[c]
  <1>1. /\ Began(c)
        /\ previews' = previews \cup {r}
        /\ request' = [request EXCEPT ![c] = NoRequest]
        /\ UNCHANGED <<items, gates, approvals, clock>>
    BY Zenon DEF CommitPreview
  <1>2. r \in PreviewRequests /\ r \in PreviewRows
    BY RequestKinds, Zenon DEF CommitPreview, Began, ApprovalInv, TypeOK, PreviewRequests, PreviewRows
  <1>3. /\ request' \in [Clients -> Requests \cup {NoRequest}]
        /\ request'[c] \notin Requests /\ ~Began(c)'
        /\ \A d \in Clients \ {c} : request'[d] = request[d] /\ (Began(d)' <=> Began(d))
    BY <1>1, Ended, Zenon
  <1>4. TypeOK'
    BY <1>1, <1>2, <1>3, Zenon DEF ApprovalInv, TypeOK
  <1>5. RequestsGrounded'
    BY <1>1, OthersGrounded, Zenon
  <1>6. OthersNeverFail'
    BY <1>1, <1>3, Zenon DEF ApprovalInv, OthersNeverFail, Requests
  <1>7. StampsUnique'
    BY <1>1, <1>3 DEF ApprovalInv, StampsUnique
  <1>8. LatestExists'
    BY <1>1, Zenon DEF ApprovalInv, LatestExists, LatestGate
  <1>9. ApprovalChain'
    BY <1>1, <1>2 DEF ApprovalInv, RequestsGrounded, ApprovalChain, GatesRestOnApproval
  <1> QED
    BY <1>4, <1>5, <1>6, <1>7, <1>8, <1>9, Zenon DEF ApprovalInv

(* An approval record is committed, or the one its default key has is kept. *)
LEMMA CommitApprovalInv ==
    ASSUME ApprovalInv, NEW c \in Clients, CommitApproval(c)
    PROVE  ApprovalInv'
  <1> DEFINE r == request[c]
  <1>1. /\ Began(c)
        /\ approvals' = approvals \/ approvals' = approvals \cup {r}
        /\ request' = [request EXCEPT ![c] = NoRequest]
        /\ UNCHANGED <<items, gates, previews, clock>>
    BY Zenon DEF CommitApproval
  <1>2. r \in ApprovalRequests /\ r \in ApprovalRows
    BY RequestKinds, Zenon DEF CommitApproval, Began, ApprovalInv, TypeOK, ApprovalRequests, ApprovalRows
  <1>3. /\ request' \in [Clients -> Requests \cup {NoRequest}]
        /\ request'[c] \notin Requests /\ ~Began(c)'
        /\ \A d \in Clients \ {c} : request'[d] = request[d] /\ (Began(d)' <=> Began(d))
    BY <1>1, Ended, Zenon
  <1>4. TypeOK'
    BY <1>1, <1>2, <1>3, Zenon DEF ApprovalInv, TypeOK
  <1>5. RequestsGrounded'
    BY <1>1, OthersGrounded, Zenon
  <1>6. OthersNeverFail'
    BY <1>1, <1>3, Zenon DEF ApprovalInv, OthersNeverFail, Requests
  <1>7. StampsUnique'
    BY <1>1, <1>3 DEF ApprovalInv, StampsUnique
  <1>8. LatestExists'
    <2>1. \A q \in approvals \cup {r} : q.stamp \in Nat
      BY <1>2, WorkflowAssumption DEF ApprovalInv, TypeOK, ApprovalRows, Stamps
    <2>2. \A q \in approvals : q.stamp # r.stamp
      BY <1>1, Zenon DEF ApprovalInv, StampsUnique
    <2>3. approvals # {} => Latest(approvals) # {}
      BY Zenon DEF ApprovalInv, LatestExists
    <2>4. Latest(approvals \cup {r}) # {}
      BY <2>1, <2>2, <2>3, LatestAfter, Zenon
    <2> QED
      BY <1>1, <2>4, Zenon DEF ApprovalInv, LatestExists, LatestGate
  <1>9. ApprovalChain'
    BY <1>1, <1>2 DEF ApprovalInv, RequestsGrounded, ApprovalChain, GatesRestOnApproval
  <1> QED
    BY <1>4, <1>5, <1>6, <1>7, <1>8, <1>9, Zenon DEF ApprovalInv

(* A request that fails leaves nothing. *)
LEMMA AbortInv ==
    ASSUME ApprovalInv, NEW c \in Clients, Abort(c)
    PROVE  ApprovalInv'
  <1>1. /\ request' = [request EXCEPT ![c] = NoRequest]
        /\ UNCHANGED <<items, gates, previews, approvals, clock>>
    BY Zenon DEF Abort
  <1>2. /\ request' \in [Clients -> Requests \cup {NoRequest}]
        /\ request'[c] \notin Requests /\ ~Began(c)'
        /\ \A d \in Clients \ {c} : request'[d] = request[d] /\ (Began(d)' <=> Began(d))
    BY <1>1, Ended, Zenon
  <1>3. TypeOK'
    BY <1>1, <1>2, Zenon DEF ApprovalInv, TypeOK
  <1>4. RequestsGrounded'
    BY <1>1, OthersGrounded, Zenon
  <1>5. OthersNeverFail'
    BY <1>1, <1>2, Zenon DEF ApprovalInv, OthersNeverFail, Requests
  <1>6. StampsUnique'
    BY <1>1, <1>2 DEF ApprovalInv, StampsUnique
  <1>7. LatestExists' /\ ApprovalChain'
    BY <1>1, Zenon DEF ApprovalInv, LatestExists, LatestGate, ApprovalChain, GatesRestOnApproval
  <1> QED
    BY <1>3, <1>4, <1>5, <1>6, <1>7, Zenon DEF ApprovalInv

(* An item leaves the skeleton, and never goes back to it: where every item was
   ready, every item stays ready.                                          *)
LEMMA ItemsInv ==
    ASSUME ApprovalInv, CreateWorkflowVersion \/ \E i \in Items : MarkWorkflowItemReady(i)
    PROVE  ApprovalInv'
  <1>1. /\ items' \in [Items -> {"missing", "placeholder", "ready"}]
        /\ UNCHANGED <<gates, previews, approvals, request, clock>>
    BY Zenon DEF CreateWorkflowVersion, MarkWorkflowItemReady, ApprovalInv, TypeOK
  <1>2. (\A i \in Items : items[i] = "ready") => \A i \in Items : items'[i] = "ready"
    <2>1. CASE CreateWorkflowVersion
      BY <2>1, Zenon DEF CreateWorkflowVersion
    <2>2. CASE \E i \in Items : MarkWorkflowItemReady(i)
      BY <2>2, Zenon DEF MarkWorkflowItemReady, ApprovalInv, TypeOK
    <2> QED
      BY <2>1, <2>2, Zenon
  <1>3. TypeOK'
    BY <1>1, Zenon DEF ApprovalInv, TypeOK
  <1>4. RequestsGrounded'
    BY <1>1, <1>2, Zenon DEF ApprovalInv, RequestsGrounded
  <1>5. OthersNeverFail' /\ StampsUnique' /\ LatestExists'
    BY <1>1, Zenon DEF ApprovalInv, OthersNeverFail, StampsUnique, Began, LatestExists, LatestGate
  <1>6. ApprovalChain'
    BY <1>1, <1>2, Zenon DEF ApprovalInv, ApprovalChain, GatesRestOnApproval
  <1> QED
    BY <1>3, <1>4, <1>5, <1>6, Zenon DEF ApprovalInv

(* Every step preserves the invariant. *)
LEMMA ApprovalNext == ApprovalInv /\ [Next]_vars => ApprovalInv'
  <1> SUFFICES ASSUME ApprovalInv, [Next]_vars PROVE ApprovalInv'
    BY Zenon
  <1>1. CASE CreateWorkflowVersion \/ \E i \in Items : MarkWorkflowItemReady(i)
    BY <1>1, ItemsInv, Zenon
  <1>2. ASSUME NEW c \in Clients,
               \/ RunWorkflowGate(c) \/ RunApprovalGate(c)
               \/ ReadApproval(c) \/ RunLiveMappingGate(c)
        PROVE  ApprovalInv'
    BY <1>2, GatesAskInv, Zenon
  <1>3. ASSUME NEW c \in Clients, NEW actor \in Actors, PreviewWorkflowTransition(c, actor)
        PROVE  ApprovalInv'
    BY <1>3, PreviewAskInv, Zenon
  <1>4. ASSUME NEW c \in Clients, NEW decision \in {"approved", "rejected"},
               NEW id \in 0..MaxRows, NEW actor \in Actors, NEW risk \in Risks,
               NEW key \in Keys, CreateApprovalRecord(c, decision, id, actor, risk, key)
        PROVE  ApprovalInv'
    BY <1>4, ApprovalAskInv, Zenon
  <1>5. ASSUME NEW c \in Clients,
               Begin(c) \/ CommitGate(c) \/ CommitPreview(c) \/ CommitApproval(c) \/ Abort(c)
        PROVE  ApprovalInv'
    BY <1>5, BeginInv, CommitGateInv, CommitPreviewInv, CommitApprovalInv, AbortInv, Zenon
  <1>6. CASE UNCHANGED vars
    <2>1. UNCHANGED <<items, gates, previews, approvals, request, clock>>
      BY <1>6, Zenon DEF vars
    <2>2. TypeOK' /\ RequestsGrounded' /\ OthersNeverFail'
      BY <2>1, Zenon DEF ApprovalInv, TypeOK, RequestsGrounded, OthersNeverFail
    <2>3. StampsUnique' /\ LatestExists' /\ ApprovalChain'
      BY <2>1, Zenon DEF ApprovalInv, StampsUnique, Began, LatestExists, LatestGate,
                  ApprovalChain, GatesRestOnApproval
    <2> QED
      BY <2>2, <2>3, Zenon DEF ApprovalInv
  <1> QED
    BY <1>1, <1>2, <1>3, <1>4, <1>5, <1>6, Zenon DEF Next

(* The invariant holds throughout. *)
THEOREM ApprovalInvariance == Spec => []ApprovalInv
  <1>1. Init => ApprovalInv
    BY ApprovalInit, Zenon
  <1>2. ApprovalInv /\ [Next]_vars => ApprovalInv'
    BY ApprovalNext, Zenon
  <1> QED
    BY <1>1, <1>2, PTL DEF Spec

(* No link of the chain behind a passed gate is ever missing, for any clients,
   items and actors: gate, approval, preview by another actor at high risk,
   promotion gate, ready items (workflow.go).                              *)
THEOREM ApprovalChainHolds == Spec => []ApprovalChain
  <1>1. ApprovalInv => ApprovalChain
    BY Zenon DEF ApprovalInv
  <1> QED
    BY <1>1, ApprovalInvariance, PTL

-----------------------------------------------------------------------------
(* The abstract state the rows stand for. *)
DecisionOf ==
    IF approvals = {} THEN "none" ELSE (CHOOSE a \in Latest(approvals) : TRUE).decision

GateOf(name) ==
    IF LatestGate(name) = {} THEN "none"
    ELSE (CHOOSE g \in LatestGate(name) : TRUE).status

ApprovedOf == \E a \in approvals : a.decision = "approved"

Views == <<DecisionOf, GateOf("approval_gate"), GateOf("live_mapping_gate"), ApprovedOf>>

(* No rows: no decision and no gate results. *)
LEMMA ApprovalInitImplements == Init => Approval!Init
  <1> SUFFICES ASSUME Init PROVE Approval!Init
    BY Zenon
  <1>1. LatestGate("approval_gate") = {} /\ LatestGate("live_mapping_gate") = {}
    BY Zenon DEF Init, LatestGate, Latest
  <1> QED
    BY <1>1, Zenon DEF Init, Approval!Init

(* A step that adds no approval and no gate result shows in none of the views. *)
LEMMA ViewsKept ==
    ASSUME UNCHANGED <<gates, approvals>>
    PROVE  UNCHANGED Views
  BY DEF Views, DecisionOf, GateOf, ApprovedOf, LatestGate

(* A decision that is inserted is Decide: it is the latest unless one with a
   later stamp was committed before it.  A replayed one is a stutter.      *)
LEMMA CommitApprovalImplements ==
    ASSUME ApprovalInv, NEW c \in Clients, CommitApproval(c)
    PROVE  (\E d \in {"none", "approved", "rejected"} : Approval!Decide(d)) \/ UNCHANGED Views
  <1> DEFINE r == request[c]
  <1>1. CASE approvals' = approvals
    BY <1>1, ViewsKept, Zenon DEF CommitApproval
  <1>2. CASE approvals' = approvals \cup {r}
    <2>1. r \in ApprovalRows
      BY RequestKinds, Zenon DEF CommitApproval, Began, ApprovalInv, TypeOK, ApprovalRequests, ApprovalRows
    <2>2. \A q \in approvals \cup {r} : q.stamp \in Nat
      BY <2>1, WorkflowAssumption DEF ApprovalInv, TypeOK, ApprovalRows, Stamps
    <2>3. \A q \in approvals : q.stamp # r.stamp
      BY Zenon DEF CommitApproval, ApprovalInv, StampsUnique
    <2>4. approvals # {} => Latest(approvals) # {}
      BY Zenon DEF ApprovalInv, LatestExists
    <2>5. \/ Latest(approvals') = {r}
          \/ approvals # {} /\ Latest(approvals') = Latest(approvals)
      BY <1>2, <2>2, <2>3, <2>4, LatestAfter, Zenon
    <2>6. DecisionOf' \in {r.decision, DecisionOf} \ {"none"}
      <3>1. CASE Latest(approvals') = {r}
        BY <1>2, <2>1, <3>1, Zenon DEF DecisionOf, ApprovalRows
      <3>2. CASE approvals # {} /\ Latest(approvals') = Latest(approvals)
        <4> DEFINE m == CHOOSE a \in Latest(approvals) : TRUE
        <4>1. m \in approvals
          BY <2>4, <3>2, Zenon DEF Latest
        <4>2. DecisionOf = m.decision /\ DecisionOf' = m.decision
          BY <1>2, <3>2, Zenon DEF DecisionOf
        <4> HIDE DEF m
        <4>3. m.decision \in {"approved", "rejected"}
          BY <4>1, Zenon DEF ApprovalInv, TypeOK, ApprovalRows
        <4> QED
          BY <4>2, <4>3, Zenon
      <3> QED
        BY <2>5, <3>1, <3>2, Zenon
    <2>7. ApprovedOf' = (ApprovedOf \/ r.decision = "approved")
      BY <1>2, Zenon DEF ApprovedOf
    <2>8. /\ GateOf("approval_gate")' = GateOf("approval_gate")
          /\ GateOf("live_mapping_gate")' = GateOf("live_mapping_gate")
      BY DEF CommitApproval, GateOf, LatestGate
    <2>9. PICK d \in {"approved", "rejected"} : d = r.decision
      BY <2>1, Zenon DEF ApprovalRows
    <2>10. Approval!Decide(d)
      BY <2>6, <2>7, <2>8, <2>9, Zenon DEF Approval!Decide, DecisionOf, GateOf, ApprovedOf
    <2> QED
      BY <2>9, <2>10, Zenon
  <1> QED
    BY <1>1, <1>2, Zenon DEF CommitApproval

(* The result of a gate that is inserted is the latest of that gate, unless one
   with a later stamp is there; the other gates are left alone.            *)
LEMMA GateInserted ==
    ASSUME ApprovalInv, NEW r \in GateRows, gates' = gates \cup {r},
           \A g \in gates : g.stamp # r.stamp, NEW name \in GateNames
    PROVE  /\ r.gate = name => GateOf(name)' \in {r.status, GateOf(name)} \ {"none"}
           /\ r.gate # name => GateOf(name)' = GateOf(name)
  <1> DEFINE S == {g \in gates : g.gate = name}
  <1>1. CASE r.gate # name
    <2>1. {g \in gates' : g.gate = name} = S
      BY <1>1, Zenon
    <2>2. LatestGate(name)' = LatestGate(name)
      BY <2>1, Zenon DEF LatestGate
    <2> QED
      BY <1>1, <2>2 DEF GateOf
  <1>2. CASE r.gate = name
    <2>1. {g \in gates' : g.gate = name} = S \cup {r}
      BY <1>2, Zenon
    <2>2. \A q \in S \cup {r} : q.stamp \in Nat
      BY WorkflowAssumption DEF ApprovalInv, TypeOK, GateRows, Stamps
    <2>3. \A q \in S : q.stamp # r.stamp /\ q.status \in {"pass", "fail", "blocked"}
      BY Zenon DEF ApprovalInv, TypeOK, GateRows
    <2>4. S # {} => Latest(S) # {}
      BY Zenon DEF ApprovalInv, LatestExists, LatestGate
    <2>5. LatestGate(name) = Latest(S) /\ LatestGate(name)' = Latest(S \cup {r})
      BY <2>1, Zenon DEF LatestGate
    <2>6. r.status \in {"pass", "fail", "blocked"}
      BY Zenon DEF GateRows
    <2> HIDE DEF S
    <2>7. \/ Latest(S \cup {r}) = {r}
          \/ S # {} /\ Latest(S \cup {r}) = Latest(S)
      BY <2>2, <2>3, <2>4, LatestAfter, Zenon
    <2>8. CASE Latest(S \cup {r}) = {r}
      BY <1>2, <2>5, <2>6, <2>8, Zenon DEF GateOf
    <2>9. CASE S # {} /\ Latest(S \cup {r}) = Latest(S)
      <3> DEFINE m == CHOOSE g \in Latest(S) : TRUE
      <3>1. m \in S
        BY <2>4, <2>9, Zenon DEF Latest
      <3>2. GateOf(name) = m.status /\ GateOf(name)' = m.status
        BY <2>4, <2>5, <2>9, Zenon DEF GateOf
      <3> HIDE DEF m
      <3> QED
        BY <1>2, <2>3, <3>1, <3>2, Zenon
    <2> QED
      BY <2>7, <2>8, <2>9, Zenon
  <1> QED
    BY <1>1, <1>2, Zenon

(* A committed gate result is a step of the gate it belongs to, and it says pass
   only where somebody approved; the promotion gate is not seen.           *)
LEMMA CommitGateImplements ==
    ASSUME ApprovalInv, NEW c \in Clients, CommitGate(c)
    PROVE  \/ \E status \in {"none", "pass", "blocked"} :
                Approval!ApprovalGate(status) \/ Approval!LiveMappingGate(status)
           \/ UNCHANGED Views
  <1>1. PICK r : r = request[c]
    BY Zenon
  <1>2. /\ Began(c) /\ gates' = gates \cup {r}
        /\ UNCHANGED approvals
    BY <1>1, Zenon DEF CommitGate
  <1>3. r \in GateRequests /\ r \in GateRows
    BY <1>1, RequestKinds, Zenon
       DEF CommitGate, Began, ApprovalInv, TypeOK, GateRequests, GateRows
  <1>4. \A g \in gates : g.stamp # r.stamp
    BY <1>1, <1>2, Zenon DEF ApprovalInv, StampsUnique
  <1>5. \A name \in GateNames :
          /\ r.gate = name => GateOf(name)' \in {r.status, GateOf(name)} \ {"none"}
          /\ r.gate # name => GateOf(name)' = GateOf(name)
    BY <1>2, <1>3, <1>4, GateInserted, Zenon
  <1>6. DecisionOf' = DecisionOf /\ ApprovedOf' = ApprovedOf
    BY <1>2 DEF DecisionOf, ApprovedOf
  <1>7. r.gate # "promotion_preview" =>
          /\ r.status \in {"pass", "blocked"}
          /\ r.status = "pass" => ApprovedOf
    BY <1>1, <1>3, Zenon DEF ApprovalInv, OthersNeverFail, RequestsGrounded, ApprovedOf, GateRows
  <1>8. CASE r.gate = "promotion_preview"
    BY <1>5, <1>6, <1>8, Zenon DEF Views, GateNames
  <1>9. CASE r.gate = "approval_gate"
    <2>1. /\ GateOf("approval_gate")' \in {r.status, GateOf("approval_gate")} \ {"none"}
          /\ GateOf("live_mapping_gate")' = GateOf("live_mapping_gate")
      BY <1>5, <1>9, Zenon DEF GateNames
    <2>2. Approval!ApprovalGate(r.status)
      BY <1>6, <1>7, <1>9, <2>1, Zenon DEF Approval!ApprovalGate, DecisionOf, GateOf, ApprovedOf
    <2> QED
      BY <1>7, <1>9, <2>2, Zenon
  <1>10. CASE r.gate = "live_mapping_gate"
    <2>1. /\ GateOf("live_mapping_gate")' \in {r.status, GateOf("live_mapping_gate")} \ {"none"}
          /\ GateOf("approval_gate")' = GateOf("approval_gate")
      BY <1>5, <1>10, Zenon DEF GateNames
    <2>2. Approval!LiveMappingGate(r.status)
      BY <1>6, <1>7, <1>10, <2>1, Zenon DEF Approval!LiveMappingGate, DecisionOf, GateOf, ApprovedOf
    <2> QED
      BY <1>7, <1>10, <2>2, Zenon
  <1> QED
    BY <1>3, <1>8, <1>9, <1>10, Zenon DEF GateRows, GateNames

(* Every step of the tables is a step of ApprovalState or invisible to it. *)
LEMMA ApprovalStepImplements ==
    ASSUME ApprovalInv, [Next]_vars
    PROVE  [Approval!Next]_Views
  <1>1. ASSUME NEW c \in Clients, CommitApproval(c) PROVE [Approval!Next]_Views
    BY <1>1, CommitApprovalImplements, Zenon DEF Approval!Next, Approval!Decisions
  <1>2. ASSUME NEW c \in Clients, CommitGate(c) PROVE [Approval!Next]_Views
    BY <1>2, CommitGateImplements, Zenon DEF Approval!Next, Approval!GateStatuses
  <1>3. CASE UNCHANGED <<gates, approvals>>
    BY <1>3, ViewsKept, Zenon
  <1>4. \/ \E c \in Clients : CommitApproval(c) \/ CommitGate(c)
        \/ UNCHANGED <<gates, approvals>>
    BY DEF Next, vars, CreateWorkflowVersion, MarkWorkflowItemReady, RunWorkflowGate,
           RunApprovalGate, ReadApproval, RunLiveMappingGate, Ask,
           PreviewWorkflowTransition, CreateApprovalRecord, Begin, CommitPreview, Abort
  <1> QED
    BY <1>1, <1>2, <1>3, <1>4, Zenon

(* The tables implement the component that execution relies on, ApprovalState:
   what BuildExecutionApprovalGate reads moves only by decisions and by gate
   results that rest on an approval.                                       *)
THEOREM ApprovalRefinement == Spec => ImplementsApprovalState
  <1>1. ApprovalInv /\ [Next]_vars => [Approval!Next]_Views
    BY ApprovalStepImplements, Zenon
  <1> QED
    BY ApprovalInitImplements, ApprovalInvariance, <1>1, PTL
       DEF Spec, ImplementsApprovalState, Approval!Spec, Approval!approvalVars, Views,
           DecisionOf, GateOf, ApprovedOf

=============================================================================
