------------------------------ MODULE ApiAccess -----------------------------
(***************************************************************************)
(* Who is let in: sessions, service tokens and role bindings of one user,  *)
(* read by requests in several queries while logins, logouts, grants,      *)
(* revocations and the clock go on; and the limiter in front of the login. *)
(***************************************************************************)
EXTENDS Naturals, Sequences, FiniteSets

CONSTANTS
    Callers,          \* requests under way
    Sessions, Tokens, \* the rows there can be
    Bindings,         \* role bindings [role, project, until] of the user
    Never,            \* the expiry of a binding without one
    IdleTTL, AbsoluteTTL, TokenMaxTTL,
    MaxNow,           \* bound on the clock
    Addresses,        \* client addresses that log in
    LoginLimit, LoginWindow, MaxEntries

(* What Load and CreateSession insist on, and what newIPRateLimiter is given;
   a session's cookie is no service token.                                 *)
ASSUME LifetimesAssumption ==
    /\ MaxNow \in Nat \ {0}
    /\ IdleTTL \in Nat /\ AbsoluteTTL \in Nat /\ IdleTTL <= AbsoluteTTL
    /\ TokenMaxTTL \in Nat

ASSUME LimiterAssumption ==
    /\ LoginLimit \in Nat \ {0}
    /\ LoginWindow \in Nat \ {0}
    /\ MaxEntries \in Nat

ASSUME CredentialsAssumption == Sessions \cap Tokens = {}

ASSUME BindingsAssumption == \A b \in Bindings : b.until = Never \/ b.until \in Nat

VARIABLES
    now,
    session, token,   \* the rows
    bindings,         \* the active bindings
    caller,           \* each request's progress
    entries,          \* the limiter's windows
    passes            \* per address, the times of the logins let through

accessVars == <<now, session, token, bindings, caller, entries, passes>>

NoEntry == [started |-> 0, count |-> 0]

NoCaller == [phase |-> "idle", by |-> "none", live |-> FALSE,
             held |-> {}, roles |-> {}]

CallerPhases == {"idle", "bootstrapping", "granting", "creating", "looking",
                 "loading", "renewing", "admitted", "refused"}

AccessTypeOK ==
    /\ now \in 1..MaxNow
    /\ \A s \in Sessions : /\ session[s].status \in {"none", "active", "revoked"}
                           /\ session[s].idle <= session[s].absolute
    /\ \A t \in Tokens : token[t].status \in {"none", "active", "revoked"}
    /\ bindings \subseteq Bindings
    /\ \A c \in Callers : caller[c].phase \in CallerPhases
    /\ Cardinality(DOMAIN entries) <= MaxEntries

AccessInit ==
    /\ now = 1
    /\ session = [s \in Sessions |-> [status |-> "none", idle |-> 0, absolute |-> 0]]
    /\ token = [t \in Tokens |-> [status |-> "none", expires |-> 0]]
    /\ bindings = {}
    /\ caller = [c \in Callers |-> NoCaller]
    /\ entries = [a \in {} |-> NoEntry]
    /\ passes = [a \in Addresses |-> <<>>]

InForce(set) == {b \in set : b.until = Never \/ b.until > now}

(* Every request under way notes the bindings that came into force. *)
Noted(bs) ==
    [c \in Callers |-> [caller[c] EXCEPT !.held = @ \cup InForce(bs)]]

Tick ==
    /\ now < MaxNow
    /\ now' = now + 1
    /\ UNCHANGED <<session, token, bindings, caller, entries, passes>>

-----------------------------------------------------------------------------
(* ipRateLimiter.Allow: a fixed window per address, in a map that is purged of
   expired windows when a new address finds it full.                       *)
Allow(a) ==
    LET known == a \in DOMAIN entries
        fresh == ~known \/ now - entries[a].started >= LoginWindow
        full == ~known /\ Cardinality(DOMAIN entries) >= MaxEntries
        kept == IF fresh /\ full
                THEN {e \in DOMAIN entries : now - entries[e].started < LoginWindow}
                ELSE DOMAIN entries
        left == [e \in kept |-> entries[e]]
    IN  IF fresh
        THEN IF ~known /\ Cardinality(kept) >= MaxEntries
             THEN [ok |-> FALSE, entries |-> left]
             ELSE [ok |-> TRUE,
                   entries |-> [e \in kept \cup {a} |->
                                  IF e = a THEN [started |-> now, count |-> 1]
                                  ELSE entries[e]]]
        ELSE IF entries[a].count >= LoginLimit
             THEN [ok |-> FALSE, entries |-> entries]
             ELSE [ok |-> TRUE, entries |-> [entries EXCEPT ![a].count = @ + 1]]

(* A request to the login pages from an address. *)
LoginRequest(a) ==
    LET allowed == Allow(a)
    IN  /\ entries' = allowed.entries
        /\ passes' = IF allowed.ok THEN [passes EXCEPT ![a] = Append(@, now)] ELSE passes
        /\ UNCHANGED <<now, session, token, bindings, caller>>

-----------------------------------------------------------------------------
Advance(c, phase) == caller' = [caller EXCEPT ![c].phase = phase]

(* oidcCallbackHandler, after the exchange: EnsureBootstrapPlatformAdmin for
   an allowed subject, then CreateSession.                                 *)
Callback(c, bootstrap) ==
    /\ caller[c].phase \in {"idle", "admitted", "refused"}
    /\ caller' = [caller EXCEPT ![c] =
                    [NoCaller EXCEPT
                       !.phase = IF bootstrap THEN "bootstrapping" ELSE "creating"]]
    /\ UNCHANGED <<now, session, token, bindings, entries, passes>>

EnsureBootstrapPlatformAdmin(c) ==
    /\ caller[c].phase = "bootstrapping"
    /\ Advance(c, IF "platform_admin" \in {b.role : b \in InForce(bindings)}
                  THEN "creating" ELSE "granting")
    /\ UNCHANGED <<now, session, token, bindings, entries, passes>>

(* An active binding, expired or not, keeps its place in the unique index. *)
Clashes(b) == \E x \in bindings : x.role = b.role /\ x.project = b.project

BootstrapGrant(c, b) ==
    /\ caller[c].phase = "granting"
    /\ b.role = "platform_admin" /\ b.until = Never
    /\ IF Clashes(b)
       THEN /\ Advance(c, "refused")
            /\ UNCHANGED bindings
       ELSE /\ bindings' = bindings \cup {b}
            /\ caller' = [Noted(bindings') EXCEPT ![c].phase = "creating"]
    /\ UNCHANGED <<now, session, token, entries, passes>>

CreateSession(c, s) ==
    /\ caller[c].phase = "creating"
    /\ session[s].status = "none"
    /\ session' = [session EXCEPT ![s] =
                     [status |-> "active", idle |-> now + IdleTTL,
                      absolute |-> now + AbsoluteTTL]]
    /\ Advance(c, "idle")
    /\ UNCHANGED <<now, token, bindings, entries, passes>>

(* logoutHandler; a session that is no longer active is logged out already. *)
RevokeSession(s) ==
    /\ session[s].status = "active"
    /\ session' = [session EXCEPT ![s].status = "revoked"]
    /\ UNCHANGED <<now, token, bindings, caller, entries, passes>>

GrantRole(b) ==
    /\ ~Clashes(b)
    /\ bindings' = bindings \cup {b}
    /\ caller' = Noted(bindings')
    /\ UNCHANGED <<now, session, token, entries, passes>>

RevokeRole(b) ==
    /\ b \in bindings
    /\ bindings' = bindings \ {b}
    /\ UNCHANGED <<now, session, token, caller, entries, passes>>

CreateToken(t, until) ==
    /\ token[t].status = "none"
    /\ until > now /\ until <= now + TokenMaxTTL
    /\ token' = [token EXCEPT ![t] = [status |-> "active", expires |-> until]]
    /\ UNCHANGED <<now, session, bindings, caller, entries, passes>>

RevokeToken(t) ==
    /\ token[t].status = "active"
    /\ token' = [token EXCEPT ![t].status = "revoked"]
    /\ UNCHANGED <<now, session, bindings, caller, entries, passes>>

-----------------------------------------------------------------------------
Live(s) == session[s].status = "active" /\ now <= session[s].absolute

TokenLive(t) == token[t].status = "active" /\ token[t].expires > now

(* A request arrives with a session cookie or a bearer token; whether that is
   good at this moment is kept for the properties.                         *)
Arrive(c, cred) ==
    /\ caller[c].phase \in {"idle", "admitted", "refused"}
    /\ IF cred \in Sessions THEN session[cred].status # "none"
       ELSE token[cred].status # "none"
    /\ caller' = [caller EXCEPT ![c] =
                    [phase |-> "looking", by |-> cred,
                     live |-> IF cred \in Sessions THEN Live(cred) ELSE TokenLive(cred),
                     held |-> InForce(bindings), roles |-> {}]]
    /\ UNCHANGED <<now, session, token, bindings, entries, passes>>

(* Authenticate: the token's row decides alone. *)
Authenticate(c) ==
    /\ caller[c].phase = "looking" /\ caller[c].by \in Tokens
    /\ Advance(c, IF TokenLive(caller[c].by) THEN "admitted" ELSE "refused")
    /\ UNCHANGED <<now, session, token, bindings, entries, passes>>

(* Variant: the row's lifetime is read, its status is not. *)
SessionGoodByTime(s) ==
    session[s].status # "none" /\ now <= session[s].idle /\ now <= session[s].absolute

(* The conditions on the session's row. *)
SessionGood(s) ==
    session[s].status = "active" /\ now <= session[s].idle /\ now <= session[s].absolute

(* AuthenticateSession: the row, then the bindings, then the renewal. *)
AuthenticateSession(c) ==
    /\ caller[c].phase = "looking" /\ caller[c].by \in Sessions
    /\ Advance(c, IF SessionGood(caller[c].by) THEN "loading" ELSE "refused")
    /\ UNCHANGED <<now, session, token, bindings, entries, passes>>

LoadedBindings == InForce(bindings)

LoadPrincipal(c) ==
    /\ caller[c].phase = "loading"
    /\ caller' = [caller EXCEPT ![c].phase = "renewing", ![c].roles = LoadedBindings]
    /\ UNCHANGED <<now, session, token, bindings, entries, passes>>

(* The renewal does not look at the status, and its failure is ignored. *)
RenewSession(c) ==
    /\ caller[c].phase = "renewing"
    /\ LET s == caller[c].by
           idle == now + IdleTTL
       IN  session' = [session EXCEPT ![s].idle =
                         IF idle <= session[s].absolute THEN idle
                         ELSE session[s].absolute]
    /\ Advance(c, "admitted")
    /\ UNCHANGED <<now, token, bindings, entries, passes>>

SkipRenewal(c) ==
    /\ caller[c].phase = "renewing"
    /\ Advance(c, "admitted")
    /\ UNCHANGED <<now, session, token, bindings, entries, passes>>

SessionStep(c) ==
    \/ EnsureBootstrapPlatformAdmin(c)
    \/ \E b \in Bindings : BootstrapGrant(c, b)
    \/ \E s \in Sessions : CreateSession(c, s)
    \/ AuthenticateSession(c)
    \/ LoadPrincipal(c) \/ RenewSession(c) \/ SkipRenewal(c)

SessionsNext ==
    \/ Tick
    \/ \E c \in Callers :
         \/ \E b \in BOOLEAN : Callback(c, b)
         \/ \E s \in Sessions : Arrive(c, s)
         \/ SessionStep(c)
    \/ \E s \in Sessions : RevokeSession(s)
    \/ \E b \in Bindings : GrantRole(b) \/ RevokeRole(b)

TokensNext ==
    \/ Tick
    \/ \E c \in Callers, t \in Tokens : Arrive(c, t) \/ Authenticate(c)
    \/ \E t \in Tokens :
         \/ RevokeToken(t)
         \/ \E until \in 1..(now + TokenMaxTTL) : CreateToken(t, until)

LoginsNext == Tick \/ \E a \in Addresses : LoginRequest(a)

AccessNext == SessionsNext \/ TokensNext \/ LoginsNext

AccessSpec == AccessInit /\ [][AccessNext]_accessVars

-----------------------------------------------------------------------------
(* However the queries of authMiddleware interleave with logouts, revocations
   and other requests' renewals, a request that arrives after its credential
   was revoked, or past its absolute lifetime, does not reach a handler.   *)
AdmittedWasLive ==
    \A c \in Callers : caller[c].phase = "admitted" => caller[c].live

(* The roles a request acts under were in force at some moment since it
   arrived: none that had been revoked or had expired before.              *)
RolesWereHeld ==
    \A c \in Callers : caller[c].roles \subseteq caller[c].held

(* The login limiter counts in fixed windows and forgets only expired ones, so
   no stretch of one window's length lets through more than twice the limit
   of one address, however many addresses compete for the map.             *)
LoginsAreLimited ==
    \A a \in Addresses : \A t \in 1..MaxNow :
        Cardinality({i \in DOMAIN passes[a] :
                       t <= passes[a][i] /\ passes[a][i] < t + LoginWindow})
            <= 2 * LoginLimit

(* Nobody gets further than what they hold: requests are admitted on live
   credentials and act under roles they held (authMiddleware,
   AuthenticateSession), logins are limited (loginLimiter), and the rows are
   well formed throughout.                                                 *)
AccessIsEarned == AccessTypeOK /\ AdmittedWasLive /\ RolesWereHeld /\ LoginsAreLimited

=============================================================================
