---------------------------- MODULE AdminAccess ----------------------------
(***************************************************************************)
(* Login of the admin platform: the two rate limiters, the sessions and    *)
(* the login route (src/server/auth.mjs, src/server.mjs), over the         *)
(* configuration of AdminConfig, through crashes and restarts.             *)
(*                                                                         *)
(* A login reads the clock, passes its address's gate and awaits bcrypt;   *)
(* other logins, saves, ticks and a crash come in between.  With a         *)
(* credential that is due, it awaits the new hash as well.                 *)
(***************************************************************************)
EXTENDS AdminConfig, Naturals, FiniteSets
CONSTANTS Logins,              \* clients that log in, each any number of times
          Ips, Tokens,
          UserLimit, IpLimit,  \* LOGIN_MAX_FAILURES, LOGIN_IP_MAX_FAILURES
          Window,              \* LOGIN_WINDOW_MS, in ticks
          DefaultAge,          \* one day, in ticks
          Scenarios            \* what may happen around the logins, see Init

ASSUME LimitAssumption ==
  /\ UserLimit \in Nat \ {0} /\ IpLimit \in Nat \ {0}
  /\ Window \in Nat \ {0} /\ DefaultAge \in Nat \ {0}
ASSUME SetAssumption == IsFiniteSet(Logins) /\ Logins # {}
ASSUME ScenarioAssumption ==
  Scenarios \subseteq [files : SUBSET (FromOperator \cup {Missing, Corrupt}), ips : SUBSET Ips,
                       guesses : BOOLEAN, env : BOOLEAN, happens : SUBSET {"tick", "save", "edit", "crash"},
                       events : Nat, maxAge : Nat]

VARIABLES scenario,            \* fixed: files to start from, addresses, whether clients
                               \* guess and the environment overrides, what else may
                               \* happen and how often, sessionMaxAge
          events,              \* how often it has
          up, now,
          userHits, ipHits,    \* the limiters' entries
          logins,              \* each client's login under way
          sessions,            \* when each session was created
          guilty,              \* (observer) addresses a failed login has come from
          refused              \* (observer) addresses a right password was refused at

serverVars == <<userHits, ipHits, logins, sessions>>
vars == <<configVars, scenario, events, up, now, serverVars, guilty, refused>>

Entry == [count : Nat, resetAt : Nat]
Login == [st : {"verifying", "hashing"}, user : Users, ip : Ips, right : BOOLEAN, t : Nat]

TypeOK ==
  /\ ConfigTypeOK
  /\ scenario \in Scenarios /\ events \in Nat
  /\ up \in BOOLEAN /\ now \in Nat
  /\ userHits \in [Users -> Entry \cup {None}]
  /\ ipHits \in [Ips -> Entry \cup {None}]
  /\ logins \in [Logins -> Login \cup {None}]
  /\ sessions \in [Tokens -> Nat \cup {None}]
  /\ guilty \subseteq Ips /\ refused \subseteq Ips

ASSUME NoneAssumption == None \notin Entry \cup Login \cup Nat

Nothing(S) == [x \in S |-> None]

Init ==
  /\ scenario \in Scenarios /\ events = 0
  /\ file \in scenario.files /\ ConfigInit
  /\ up = FALSE /\ now = 0
  /\ userHits = Nothing(Users) /\ ipHits = Nothing(Ips)
  /\ logins = Nothing(Logins) /\ sessions = Nothing(Tokens)
  /\ guilty = {} /\ refused = {}

-----------------------------------------------------------------------------
(* The limiters                                                            *)

Elapsed(e, t) == e = None \/ e.resetAt <= t

\* Mutant: one failure more.
LimitedLate(e, limit, t) == ~Elapsed(e, t) /\ e.count > limit

\* check
Limited(e, limit, t) == ~Elapsed(e, t) /\ e.count >= limit

\* fail: prune, then count
Fail(hits, k, t) ==
  [x \in DOMAIN hits |->
    IF x = k THEN IF Elapsed(hits[k], t) THEN [count |-> 1, resetAt |-> t + Window]
                  ELSE [hits[k] EXCEPT !.count = @ + 1]
    ELSE IF Elapsed(hits[x], t) THEN None ELSE hits[x]]

\* Mutant: a locked account is refused before its password is looked at.
GateAndLock(u, i) == Limited(ipHits[i], IpLimit, now) \/ Limited(userHits[u], UserLimit, now)

\* Only the address is looked at before verification, not the user.
Gate(u, i) == Limited(ipHits[i], IpLimit, now)

-----------------------------------------------------------------------------
(* A login                                                                 *)

\* A user without a credential costs a comparison too, and never gets in.
Begin(a) ==
  /\ up /\ logins[a] = None
  /\ UNCHANGED <<configVars, scenario, events, up, now, userHits, ipHits, sessions, guilty>>
  /\ \E u \in Users, i \in scenario.ips, right \in {TRUE, ~scenario.guesses} :
       /\ right => Verifiable(u)
       /\ \/ /\ Gate(u, i)
             /\ refused' = IF right THEN refused \cup {i} ELSE refused
             /\ UNCHANGED logins
          \/ /\ ~Gate(u, i)
             /\ logins' = [logins EXCEPT ![a] =
                  [st |-> "verifying", user |-> u, ip |-> i, right |-> right, t |-> now]]
             /\ UNCHANGED refused

\* Mutant: the locked reply does not count against the address.
RefuseUncounted(a) ==
  /\ logins[a] # None /\ logins[a].st = "verifying" /\ ~logins[a].right
  /\ LET l == logins[a]
         locked == Limited(userHits[l.user], UserLimit, l.t)
     IN /\ ipHits' = IF locked THEN ipHits ELSE Fail(ipHits, l.ip, l.t)
        /\ userHits' = IF locked THEN userHits ELSE Fail(userHits, l.user, l.t)
        /\ guilty' = guilty \cup {l.ip}
  /\ logins' = [logins EXCEPT ![a] = None]
  /\ UNCHANGED <<configVars, scenario, events, up, now, sessions, refused>>

\* The comparison fails: both limiters go by the clock as it was on arrival.
Refuse(a) ==
  /\ logins[a] # None /\ logins[a].st = "verifying" /\ ~logins[a].right
  /\ LET l == logins[a]
         locked == Limited(userHits[l.user], UserLimit, l.t)
     IN /\ ipHits' = Fail(ipHits, l.ip, l.t)
        /\ userHits' = IF locked THEN userHits ELSE Fail(userHits, l.user, l.t)
        /\ guilty' = guilty \cup {l.ip}
  /\ logins' = [logins EXCEPT ![a] = None]
  /\ UNCHANGED <<configVars, scenario, events, up, now, sessions, refused>>

\* validateSession: a maximum age of 0 stands for a day (||) ...
AgeOrDefault == IF scenario.maxAge = 0 THEN DefaultAge ELSE scenario.maxAge

\* ... and createSession takes it as it is (??).
SweepAge == scenario.maxAge

CreateSession ==
  \E token \in Tokens :
    /\ sessions[token] = None
    /\ sessions' = [s \in Tokens |->
         IF s = token THEN now
         ELSE IF sessions[s] # None /\ now - sessions[s] > SweepAge THEN None
         ELSE sessions[s]]

\* The comparison succeeds: the counters go, and a credential that is still
\* due, after whatever other logins have done, is hashed before the reply.
Accept(a) ==
  /\ logins[a] # None /\ logins[a].st = "verifying" /\ logins[a].right
  /\ userHits' = [userHits EXCEPT ![logins[a].user] = None]
  /\ ipHits' = [ipHits EXCEPT ![logins[a].ip] = None]
  /\ \/ /\ NeedsRehash(logins[a].user)
        /\ logins' = [logins EXCEPT ![a].st = "hashing"]
        /\ UNCHANGED sessions
     \/ /\ ~NeedsRehash(logins[a].user)
        /\ logins' = [logins EXCEPT ![a] = None]
        /\ CreateSession
  /\ UNCHANGED <<configVars, scenario, events, up, now, guilty, refused>>

Upgrade(a) ==
  /\ logins[a] # None /\ logins[a].st = "hashing"
  /\ UpgradeCredential(logins[a].user)
  /\ CreateSession
  /\ logins' = [logins EXCEPT ![a] = None]
  /\ UNCHANGED <<scenario, events, up, now, userHits, ipHits, guilty, refused>>

\* A request with an expired token removes the session and answers 401; with
\* any other token it changes nothing.
Expire(token) ==
  /\ sessions[token] # None /\ now - sessions[token] > AgeOrDefault
  /\ sessions' = [sessions EXCEPT ![token] = None]
  /\ UNCHANGED <<configVars, scenario, events, up, now, userHits, ipHits, logins, guilty, refused>>

-----------------------------------------------------------------------------
(* Around it                                                               *)

Boot ==
  /\ ~up /\ up' = TRUE
  /\ LoadConfig
  /\ override' \/ config'.host = "env" => scenario.env
  /\ UNCHANGED <<scenario, events, now, serverVars, guilty, refused>>

Save == RunSave /\ UNCHANGED <<scenario, events, up, now, serverVars, guilty, refused>>

\* At most scenario.events of these.
Happen(what) ==
  /\ what \in scenario.happens /\ events < scenario.events
  /\ events' = events + 1
  /\ UNCHANGED <<scenario, guilty, refused>>

Tick == /\ Happen("tick")
        /\ now' = now + 1
        /\ UNCHANGED <<configVars, up, serverVars>>

RequestSave ==
  /\ Happen("save") /\ up
  /\ CallSave
  /\ UNCHANGED <<file, config, override, edited, missed, settled, up, now, serverVars>>

Edit == /\ Happen("edit")
        /\ \E u \in Users : EditCredential(u)
        /\ UNCHANGED <<up, now, serverVars>>

\* Memory is lost: limiters, sessions, logins under way and queued saves.
Crash ==
  /\ Happen("crash") /\ up /\ up' = FALSE
  /\ userHits' = Nothing(Users) /\ ipHits' = Nothing(Ips)
  /\ logins' = Nothing(Logins) /\ sessions' = Nothing(Tokens)
  /\ saves' = <<>>
  /\ UNCHANGED <<file, config, override, edited, missed, settled, now>>

Next ==
  \/ \E a \in Logins : Begin(a) \/ Refuse(a) \/ Accept(a) \/ Upgrade(a)
  \/ \E token \in Tokens : Expire(token)
  \/ Boot \/ Save \/ Tick \/ RequestSave \/ Edit \/ Crash

Spec == Init /\ [][Next]_vars

-----------------------------------------------------------------------------
(* Properties                                                              *)

\* Brute force is bounded although the gate is looked at before the await on
\* bcrypt and counted after it: an address gets past its limit by no more than
\* the other logins that may be in verification.  The user's counter, looked at
\* and counted in one turn, never gets past its limit at all: it is the counter
\* that is bounded, for failures past the lock are not counted in it.
FailuresBounded ==
  /\ \A i \in Ips : ipHits[i] # None => ipHits[i].count <= IpLimit + Cardinality(Logins) - 1
  /\ \A u \in Users : userHits[u] # None => userHits[u].count <= UserLimit

\* A right password is refused only at an address that failed logins have come
\* from, whatever other addresses do with the same account (auth.mjs, "Lockout
\* separation").
InnocentAddressGetsIn == refused \subseteq guilty

\* An address cannot go on failing for ever: it is shut out until time passes
\* or one of its logins succeeds, also when the account's own limit has already
\* stopped each of them.
SprayIsStopped ==
  \A i \in Ips :
    []<><<\E a \in Logins : logins[a] # None /\ logins[a].ip = i /\ Refuse(a)>>_vars
      => []<><<\E a \in Logins : logins[a] # None /\ logins[a].ip = i /\ Accept(a)>>_vars

\* The safety half of that, and why it holds: until time passes, one of its
\* logins succeeds or the process ends, an address that is shut out stays shut
\* out, and no login from it joins those that are past the gate already.
Verifying(i) == {a \in Logins : logins[a] # None /\ logins[a].ip = i /\ logins[a].st = "verifying"}
ShutOutStays ==
  [][\A i \in Ips :
       /\ Limited(ipHits[i], IpLimit, now) /\ now' = now /\ up'
       /\ ~\E a \in Logins : logins[a] # None /\ logins[a].ip = i /\ Accept(a)
       => Limited(ipHits'[i], IpLimit, now') /\ Verifying(i)' \subseteq Verifying(i)]_vars

\* The store holds only sessions that were still good at the last login, also
\* when sessionMaxAge is 0.
SweptAtLogin ==
  \A s, t \in Tokens :
    sessions[s] # None /\ sessions[t] # None => sessions[t] - sessions[s] <= scenario.maxAge

\* File and memory agree, whatever saves, logins, edits and crashes come between:
\* while the environment overrides nothing, a user's credential in the file is
\* the live one, or what the operator has set since the boot, or, where a save
\* has failed, the live one before its re-hashing.  And the setting in the file
\* is the last that a save has written: no save or upgrade that is about another
\* key touches it.  That an edit or a patch survives is not said, and does not
\* hold: an upgrade reverts the one, a save without a patch the other.
FileAgreesWithMemory ==
  /\ up /\ ~override =>
       /\ IsDoc
       /\ \A u \in Users :
            \/ file.users[u] = config.users[u]
            \/ u \in edited /\ file.users[u] = [pw |-> "edited", form |-> "bcrypt"]
            \/ /\ u \in missed /\ config.users[u] # None
               /\ file.users[u] = [config.users[u] EXCEPT !.form = "old"]
  /\ IsDoc => file.schedule = settled

\* What comes from the environment stays out of the file: the host always; a
\* credential that was laid over a user's, unless a login's own upgrade writes it,
\* and then for a user the file has already: none is created.
Upgrading == \E a \in Logins : logins[a] # None /\ logins[a].st = "hashing" /\ logins'[a] = None
FileUsers == IF IsDoc THEN {u \in Users : file.users[u] # None} ELSE {}
EnvUsers == {u \in FileUsers : file.users[u].pw = "env"}
EnvStaysOut ==
  [][/\ IsDoc' => file'.host = "file"
     /\ override => EnvUsers' \subseteq EnvUsers \cup (IF Upgrading THEN FileUsers ELSE {})]_vars
=============================================================================
