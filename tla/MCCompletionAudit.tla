-------------------------- MODULE MCCompletionAudit --------------------------
(* What may be asked and what may change, kind by kind. *)
EXTENDS CompletionAudit

(* Requests that lack at most one thing that the proofs of their kind need. *)
MCRequests(kind) ==
    LET bindings == IF kind \in DOMAIN BoundTo THEN Versions ELSE {InScope}
        needs == {"traceable"}
                   \cup (IF kind = "smoke" THEN {} ELSE {"facts"})
                   \cup (IF kind \in {"archive", "shimRetirement", "executionCutover",
                                      "protectedPath"} THEN {"approved"} ELSE {})
        full == [status |-> "blocked", facts |-> TRUE, traceable |-> TRUE, approved |-> TRUE,
                 binding |-> NoBinding, key |-> "default"]
    IN  {[full EXCEPT !.status = s] : s \in Statuses(kind)}
          \cup {[full EXCEPT !.status = s, !.binding = b, !.key = k] :
                  s \in Good(kind), b \in bindings,
                  k \in {"default"} \cup IF kind = "smoke" THEN Keys ELSE {}}
          \cup {[full EXCEPT !.status = s, !.binding = b, ![x] = FALSE] :
                  s \in Good(kind), b \in bindings, x \in needs}

Play(ks, fs) == [kinds |-> ks, facts |-> fs, records |-> 1, changes |-> 1]

(* Every kind beside the fact its item is judged with, and every other fact, a
   record and a change at a time; and two smoke proofs at a time.          *)
MCPlays ==
    {Play({"releasePackaging"}, {"release"}),
     Play({"protectedPath", "archive"}, {"projection"}),
     Play({"smoke", "sourceAlignment"}, {"source"}),
     Play({"backupRestore"}, {"artifacts"}),
     Play({"taskMatrix"}, {"tasks"}),
     Play({"executionCutover", "securityClosure"}, {"security"}),
     Play({"shimRetirement", "validation"}, {"identity", "operations", "cutover"}),
     [Play({"smoke"}, {}) EXCEPT !.records = 2]}

CallSymmetry == Permutations(Calls)

=============================================================================
