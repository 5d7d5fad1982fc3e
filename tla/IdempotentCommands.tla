------------------------ MODULE IdempotentCommands --------------------------
(***************************************************************************)
(* What the command ledger promises its callers: a key is executed at most *)
(* once, its outcome never changes afterwards, a call with the same request *)
(* gets that outcome and a call with another request gets a conflict.  A   *)
(* request is what the caller asks for and, where a handler resolves it in *)
(* the database first, what it was resolved to.                            *)
(***************************************************************************)
CONSTANTS
    Clients, Keys, Requests, Outcomes,
    NoOutcome,     \* the key was never executed
    Conflict,      \* ErrIdempotencyConflict
    NoAnswer       \* no call, or its answer is pending or was lost

VARIABLES
    ledger,        \* what was executed under each key, for which request
    asked,         \* the call a client makes
    answer         \* what the client was told

Asked == [key : Keys, req : Requests]

Init ==
    /\ ledger = [k \in Keys |-> NoOutcome]
    /\ asked \in [Clients -> Asked]
    /\ answer = [c \in Clients |-> NoAnswer]

(* A new call, or the same one again after its answer was lost. *)
Ask(c) ==
    /\ \E a \in Asked : asked' = [asked EXCEPT ![c] = a]
    /\ answer' = [answer EXCEPT ![c] = NoAnswer]
    /\ UNCHANGED ledger

Execute(c) ==
    /\ ledger[asked[c].key] = NoOutcome
    /\ \E o \in Outcomes :
         ledger' = [ledger EXCEPT ![asked[c].key] = [req |-> asked[c].req, out |-> o]]
    /\ UNCHANGED <<asked, answer>>

Answer(c) ==
    /\ ledger[asked[c].key] # NoOutcome
    /\ answer' = [answer EXCEPT ![c] =
                    IF ledger[asked[c].key].req = asked[c].req
                      THEN ledger[asked[c].key].out ELSE Conflict]
    /\ UNCHANGED <<ledger, asked>>

Next == \E c \in Clients : Ask(c) \/ Execute(c) \/ Answer(c)

Spec == Init /\ [][Next]_<<ledger, asked, answer>>
=============================================================================
