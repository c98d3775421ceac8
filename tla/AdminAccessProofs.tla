------------------------- MODULE AdminAccessProofs -------------------------
(***************************************************************************)
(* Theorems about AdminAccess: for any users, addresses and clients, any   *)
(* limits and windows, and any scenario.                                   *)
(***************************************************************************)
EXTENDS AdminAccess, SequenceTheorems, FiniteSetTheorems, TLAPS

\* Nobody is logging in to a platform that is down, and a login that will
\* succeed is one of a user that has a credential in memory.
LoginInv ==
  /\ ~up => \A a \in Logins : logins[a] = None
  /\ \A a \in Logins :
       logins[a] # None /\ (logins[a].right \/ logins[a].st = "hashing")
         => config.users[logins[a].user] # None

Typed == TypeOK /\ LoginInv

-----------------------------------------------------------------------------
(* Type correctness                                                        *)

\* Whatever the file, what loadConfig returns is a document.
LEMMA LoadedIsDoc ==
  ASSUME file \in Docs \cup {Missing, Corrupt} PROVE Loaded \in Docs
BY ConfigAssumption DEF Loaded, IsDoc, DefaultDoc, Docs

\* Counting a failure gives well typed entries.
LEMMA FailTypes ==
  ASSUME NEW K, NEW hits \in [K -> Entry \cup {None}], NEW k \in K, NEW t \in Nat
  PROVE  Fail(hits, k, t) \in [K -> Entry \cup {None}]
<1>1. [count |-> 1, resetAt |-> t + Window] \in Entry
  BY LimitAssumption DEF Entry
<1>2. ~Elapsed(hits[k], t) => [hits[k] EXCEPT !.count = @ + 1] \in Entry
  BY DEF Elapsed, Entry
<1> QED BY <1>1, <1>2 DEF Fail

\* A re-hashed credential is typed, and what is written of it too.
LEMMA UpgradeTypes ==
  ASSUME ConfigTypeOK, NEW u \in Users, config.users[u] # None, UpgradeCredential(u)
  PROVE  ConfigTypeOK' /\ \A x \in Users : config'.users[x] = None <=> config.users[x] = None
<1> DEFINE live == [config.users EXCEPT ![u].form = "bcrypt"]
<1>1. live \in [Users -> Cred \cup {None}]
  <2>1. config.users \in [Users -> Cred \cup {None}] /\ config.users[u] \in Cred
    BY DEF ConfigTypeOK, Docs
  <2>2. [config.users[u] EXCEPT !.form = "bcrypt"] \in Cred
    BY <2>1 DEF Cred
  <2> QED BY <2>1, <2>2
<1>2. config' \in Docs /\ config'.users = live
  BY <1>1 DEF UpgradeCredential, ConfigTypeOK, Docs
<1>3. file' \in Docs \cup {Missing, Corrupt}
  <2>1. CASE file' = file
    BY <2>1 DEF ConfigTypeOK
  <2>2. CASE IsDoc /\ file' = CredentialUpgrades(live)
    BY <2>2, <1>1 DEF CredentialUpgrades, ConfigTypeOK, IsDoc, Docs
  <2> QED BY <2>1, <2>2 DEF UpgradeCredential
<1>4. \A x \in Users : live[x] = None <=> config.users[x] = None
  BY <1>1, ConfigAssumption DEF ConfigTypeOK, Docs, Cred
<1> QED BY <1>2, <1>3, <1>4 DEF UpgradeCredential, ConfigTypeOK

\* A queued save writes a document.
LEMMA SaveTypes == ConfigTypeOK /\ RunSave => ConfigTypeOK' /\ config' = config
<1> SUFFICES ASSUME ConfigTypeOK, RunSave PROVE ConfigTypeOK' /\ config' = config
  OBVIOUS
<1>1. saves \in Seq(Changes) /\ saves # <<>>
  BY DEF ConfigTypeOK, RunSave
<1>2. Head(saves) \in Changes /\ saves' \in Seq(Changes)
  BY <1>1, HeadTailProperties DEF RunSave
<1>3. Loaded \in Docs
  BY LoadedIsDoc DEF ConfigTypeOK
<1>4. Merged(Loaded, Head(saves)) \in Docs
  BY <1>2, <1>3 DEF Merged, ConfigTypeOK, Docs, Changes
<1>5. file' \in Docs \cup {Missing, Corrupt} /\ settled' \in Schedules
  BY <1>2, <1>4 DEF RunSave, ConfigTypeOK, Changes
<1> QED BY <1>2, <1>5 DEF RunSave, ConfigTypeOK

\* createConfig builds a document.
LEMMA LoadTypes == ConfigTypeOK /\ LoadConfig => ConfigTypeOK'
<1> SUFFICES ASSUME ConfigTypeOK, LoadConfig PROVE ConfigTypeOK'
  OBVIOUS
<1>1. Loaded \in Docs
  BY LoadedIsDoc DEF ConfigTypeOK
<1>2. PICK host \in {Loaded.host, "env"}, form \in {None, "old", "bcrypt"}, admin \in Users :
        config' = ApplyPasswordOverride([Loaded EXCEPT !.host = host], admin, form)
  BY DEF LoadConfig
<1>3. [Loaded EXCEPT !.host = host] \in Docs
  BY <1>1 DEF Docs
<1>4. config' \in Docs
  BY <1>2, <1>3 DEF ApplyPasswordOverride, Docs, Cred
<1>5. saves' \in Seq(Changes)
  BY EmptySeq DEF LoadConfig
<1> QED BY <1>4, <1>5 DEF LoadConfig, ConfigTypeOK

\* A call of saveConfig queues a well formed change.
LEMMA CallTypes == ConfigTypeOK /\ CallSave => saves' \in Seq(Changes)
<1> SUFFICES ASSUME ConfigTypeOK, CallSave PROVE saves' \in Seq(Changes)
  OBVIOUS
<1>1. PICK change \in Changes : saves' = Append(saves, change)
  <2>1. CASE \E s \in Schedules : saves' = Append(saves, [users |-> FALSE, schedule |-> s])
    BY <2>1 DEF Changes
  <2>2. CASE saves' = Append(saves, Difference)
    <3>1. Difference \in Changes
      BY DEF Difference, Changes, ConfigTypeOK, Docs
    <3> QED BY <2>2, <3>1
  <2> QED BY <2>1, <2>2 DEF CallSave
<1> QED BY <1>1, AppendProperties DEF ConfigTypeOK

\* Creating a session keeps the store typed.
LEMMA SessionTypes == TypeOK /\ CreateSession => sessions' \in [Tokens -> Nat \cup {None}]
BY DEF TypeOK, CreateSession

\* Every step keeps the types and what is known of the logins under way.
LEMMA TypeStep == Typed /\ [Next]_vars => Typed'
<1> SUFFICES ASSUME TypeOK, LoginInv, [Next]_vars PROVE TypeOK' /\ LoginInv'
  BY DEF Typed
<1> USE NoneAssumption
<1>1. CASE UNCHANGED vars
  BY <1>1 DEF TypeOK, LoginInv, ConfigTypeOK, vars, configVars, serverVars, IsDoc, Loaded
<1>2. ASSUME NEW a \in Logins, Begin(a) PROVE TypeOK' /\ LoginInv'
  <2>1. ConfigTypeOK'
    BY <1>2 DEF Begin, TypeOK, ConfigTypeOK, configVars
  <2>2. PICK u \in Users, i \in scenario.ips, right \in {TRUE, ~scenario.guesses} :
          /\ right => Verifiable(u)
          /\ \/ /\ refused' = IF right THEN refused \cup {i} ELSE refused
                /\ UNCHANGED logins
             \/ /\ logins' = [logins EXCEPT ![a] =
                     [st |-> "verifying", user |-> u, ip |-> i, right |-> right, t |-> now]]
                /\ UNCHANGED refused
    BY <1>2 DEF Begin
  <2>3. i \in Ips /\ right \in BOOLEAN
    BY <2>2, ScenarioAssumption DEF TypeOK
  <2>4. [st |-> "verifying", user |-> u, ip |-> i, right |-> right, t |-> now] \in Login
    BY <2>3 DEF Login, TypeOK
  <2>5. TypeOK'
    BY <1>2, <2>1, <2>2, <2>3, <2>4 DEF Begin, TypeOK
  <2>6. up' = up /\ up /\ config' = config
    BY <1>2 DEF Begin, configVars
  <2>7. LoginInv'
    BY <2>2, <2>4, <2>6 DEF LoginInv, TypeOK, Verifiable
  <2> QED BY <2>5, <2>7
<1>3. ASSUME NEW a \in Logins, Refuse(a) PROVE TypeOK' /\ LoginInv'
  <2>1. ConfigTypeOK' /\ config' = config /\ up' = up
    BY <1>3 DEF Refuse, TypeOK, ConfigTypeOK, configVars
  <2>2. logins[a] \in Login
    BY <1>3 DEF Refuse, TypeOK
  <2>3. /\ Fail(ipHits, logins[a].ip, logins[a].t) \in [Ips -> Entry \cup {None}]
        /\ Fail(userHits, logins[a].user, logins[a].t) \in [Users -> Entry \cup {None}]
    BY <2>2, FailTypes DEF TypeOK, Login
  <2>4. ipHits' \in [Ips -> Entry \cup {None}] /\ userHits' \in [Users -> Entry \cup {None}]
    BY <1>3, <2>3 DEF Refuse, TypeOK
  <2>5. TypeOK'
    BY <1>3, <2>1, <2>2, <2>4 DEF Refuse, TypeOK, Login
  <2>6. LoginInv'
    BY <1>3, <2>1 DEF Refuse, LoginInv, TypeOK
  <2> QED BY <2>5, <2>6
<1>4. ASSUME NEW a \in Logins, Accept(a) PROVE TypeOK' /\ LoginInv'
  <2>1. ConfigTypeOK' /\ config' = config /\ up' = up
    BY <1>4 DEF Accept, TypeOK, ConfigTypeOK, configVars
  <2>2. logins[a] \in Login
    BY <1>4 DEF Accept, TypeOK
  <2>3. [logins[a] EXCEPT !.st = "hashing"] \in Login
    BY <2>2 DEF Login
  <2>4. logins' \in [Logins -> Login \cup {None}] /\ sessions' \in [Tokens -> Nat \cup {None}]
    BY <1>4, <2>3, SessionTypes DEF Accept, TypeOK
  <2>5. TypeOK'
    BY <1>4, <2>1, <2>2, <2>4 DEF Accept, TypeOK, Login
  <2>6. \A b \in Logins : logins'[b] # None =>
          logins[b] # None /\ logins'[b].user = logins[b].user /\ logins'[b].right = logins[b].right
            /\ (logins'[b].st = "hashing" => b = a \/ logins[b].st = "hashing")
    BY <1>4, <2>2 DEF Accept, TypeOK, Login
  <2>7. LoginInv'
    BY <1>4, <2>1, <2>6 DEF Accept, LoginInv
  <2> QED BY <2>5, <2>7
<1>5. ASSUME NEW a \in Logins, Upgrade(a) PROVE TypeOK' /\ LoginInv'
  <2>1. logins[a] \in Login /\ config.users[logins[a].user] # None
    BY <1>5 DEF Upgrade, TypeOK, LoginInv
  <2>2. ConfigTypeOK' /\ \A x \in Users : config'.users[x] = None <=> config.users[x] = None
    BY <1>5, <2>1, UpgradeTypes DEF Upgrade, TypeOK, Login
  <2>3. TypeOK'
    BY <1>5, <2>2, SessionTypes DEF Upgrade, TypeOK
  <2>4. LoginInv'
    BY <1>5, <2>2 DEF Upgrade, LoginInv, TypeOK, Login
  <2> QED BY <2>3, <2>4
<1>6. ASSUME NEW token \in Tokens, Expire(token) PROVE TypeOK' /\ LoginInv'
  BY <1>6 DEF Expire, TypeOK, LoginInv, ConfigTypeOK, configVars
<1>7. CASE Boot
  <2>1. ConfigTypeOK'
    BY <1>7, LoadTypes DEF Boot, TypeOK
  <2>2. \A a \in Logins : logins'[a] = None
    BY <1>7 DEF Boot, LoginInv, serverVars
  <2> QED BY <1>7, <2>1, <2>2 DEF Boot, TypeOK, LoginInv, serverVars
<1>8. CASE Save
  <2>1. ConfigTypeOK' /\ config' = config
    BY <1>8, SaveTypes DEF Save, TypeOK
  <2> QED BY <1>8, <2>1 DEF Save, TypeOK, LoginInv, serverVars
<1>9. CASE Tick
  BY <1>9 DEF Tick, Happen, TypeOK, LoginInv, ConfigTypeOK, configVars, serverVars
<1>10. CASE RequestSave
  BY <1>10, CallTypes DEF RequestSave, Happen, TypeOK, LoginInv, ConfigTypeOK, serverVars
<1>11. CASE Edit
  <2>1. PICK u \in Users : EditCredential(u)
    BY <1>11 DEF Edit
  <2>2. [pw |-> "edited", form |-> "bcrypt"] \in Cred
    BY DEF Cred
  <2>3. ConfigTypeOK' /\ config' = config
    BY <2>1, <2>2 DEF EditCredential, TypeOK, ConfigTypeOK, IsDoc, Docs
  <2> QED BY <1>11, <2>3 DEF Edit, Happen, TypeOK, LoginInv, serverVars
<1>12. CASE Crash
  <2>1. ConfigTypeOK'
    BY <1>12, EmptySeq DEF Crash, TypeOK, ConfigTypeOK
  <2>2. \A a \in Logins : logins'[a] = None
    BY <1>12 DEF Crash, Nothing
  <2>3. LoginInv'
    BY <2>2 DEF LoginInv
  <2>4. /\ userHits' \in [Users -> Entry \cup {None}] /\ ipHits' \in [Ips -> Entry \cup {None}]
        /\ logins' \in [Logins -> Login \cup {None}] /\ sessions' \in [Tokens -> Nat \cup {None}]
    BY <1>12 DEF Crash, Nothing
  <2>5. /\ scenario' = scenario /\ up' = FALSE /\ now' = now
        /\ guilty' = guilty /\ refused' = refused
    BY <1>12 DEF Crash, Happen
  <2>6. events' \in Nat
    BY <1>12 DEF Crash, Happen, TypeOK
  <2>7. TypeOK'
    BY <2>1, <2>4, <2>5, <2>6 DEF TypeOK
  <2> QED BY <2>3, <2>7
<1> QED BY <1>1, <1>2, <1>3, <1>4, <1>5, <1>6, <1>7, <1>8, <1>9, <1>10, <1>11, <1>12 DEF Next

-----------------------------------------------------------------------------
(* The limiters                                                            *)

\* The logins lg that may still be counted in an entry of address i that lasts
\* until r: those in verification that arrived before.
Ahead(lg, i, r) ==
  {a \in Logins : lg[a] # None /\ lg[a].st = "verifying" /\ lg[a].ip = i /\ lg[a].t < r}

\* What an entry counts, with what may still come to it, keeps to the bound.
FloodInv ==
  \A i \in Ips : ipHits[i] # None =>
    ipHits[i].count + Cardinality(Ahead(logins, i, ipHits[i].resetAt))
      <= IpLimit + Cardinality(Logins) - 1

UserInv == \A u \in Users : userHits[u] # None => userHits[u].count <= UserLimit

\* An address has an entry only if a failed login has come from it.
GuiltyInv == (\A i \in Ips : ipHits[i] # None => i \in guilty) /\ refused \subseteq guilty

LimiterInv == FloodInv /\ UserInv /\ GuiltyInv

\* The logins ahead are finitely many, at most all.
LEMMA AheadFinite ==
  ASSUME NEW lg, NEW i, NEW r
  PROVE  /\ IsFiniteSet(Ahead(lg, i, r)) /\ Cardinality(Ahead(lg, i, r)) \in Nat
         /\ Cardinality(Logins) \in Nat
         /\ Cardinality(Ahead(lg, i, r)) <= Cardinality(Logins)
<1>1. Ahead(lg, i, r) \subseteq Logins
  BY DEF Ahead
<1> QED BY <1>1, SetAssumption, FS_Subset, FS_CardinalityType

\* Fewer ahead, a smaller number.
LEMMA AheadShrinks ==
  ASSUME NEW lg, NEW lg2, NEW i, NEW r, Ahead(lg2, i, r) \subseteq Ahead(lg, i, r)
  PROVE  Cardinality(Ahead(lg2, i, r)) <= Cardinality(Ahead(lg, i, r))
BY AheadFinite, FS_Subset

\* A login that leaves verification is no longer ahead.
LEMMA AheadWithout ==
  ASSUME NEW lg, NEW lg2, NEW i, NEW r, NEW a \in Ahead(lg, i, r),
         Ahead(lg2, i, r) \subseteq Ahead(lg, i, r) \ {a}
  PROVE  Cardinality(Ahead(lg2, i, r)) <= Cardinality(Ahead(lg, i, r)) - 1
<1> DEFINE S == Ahead(lg, i, r)
<1>1. IsFiniteSet(S) /\ Cardinality(S) \in Nat
  BY AheadFinite
<1>2. IsFiniteSet(S \ {a}) /\ Cardinality(S \ {a}) = Cardinality(S) - 1
  BY <1>1, FS_RemoveElement
<1> QED BY <1>2, FS_Subset

\* A step that counts nothing and lets nobody in keeps the bound.
LEMMA LimitersStand ==
  ASSUME Typed, Typed', LimiterInv, UNCHANGED <<ipHits, userHits, guilty, refused>>,
         \A a \in Logins : logins'[a] # None /\ logins'[a].st = "verifying" => logins'[a] = logins[a]
  PROVE  LimiterInv'
<1>1. ASSUME NEW i \in Ips, ipHits'[i] # None
      PROVE  ipHits'[i].count + Cardinality(Ahead(logins', i, ipHits'[i].resetAt))
               <= IpLimit + Cardinality(Logins) - 1
  <2> DEFINE r == ipHits[i].resetAt
  <2>1. Ahead(logins', i, r) \subseteq Ahead(logins, i, r)
    BY DEF Ahead
  <2>2. Cardinality(Ahead(logins', i, r)) <= Cardinality(Ahead(logins, i, r))
    BY <2>1, AheadShrinks
  <2>3. ipHits[i] \in Entry
    BY <1>1 DEF Typed, TypeOK
  <2> QED BY <1>1, <2>2, <2>3, AheadFinite, LimitAssumption DEF LimiterInv, FloodInv, Entry
<1> QED BY <1>1 DEF LimiterInv, FloodInv, UserInv, GuiltyInv

\* A new login passes the gate only where the limit leaves room for everybody
\* who may be in verification.
LEMMA BeginLimiters ==
  ASSUME Typed, Typed', LimiterInv, NEW a \in Logins, Begin(a) PROVE LimiterInv'
<1>1. UNCHANGED <<ipHits, userHits, guilty, now>>
  BY DEF Begin
<1>2. PICK u \in Users, i \in scenario.ips, right \in {TRUE, ~scenario.guesses} :
        \/ /\ Gate(u, i)
           /\ refused' = IF right THEN refused \cup {i} ELSE refused
           /\ UNCHANGED logins
        \/ /\ ~Gate(u, i)
           /\ logins' = [logins EXCEPT ![a] =
                [st |-> "verifying", user |-> u, ip |-> i, right |-> right, t |-> now]]
           /\ UNCHANGED refused
  BY DEF Begin
<1>3. i \in Ips
  BY <1>2, ScenarioAssumption DEF Typed, TypeOK
<1>4. CASE Gate(u, i) /\ refused' = (IF right THEN refused \cup {i} ELSE refused) /\ UNCHANGED logins
  <2>1. i \in guilty
    BY <1>3, <1>4 DEF Gate, Limited, Elapsed, LimiterInv, GuiltyInv
  <2> QED BY <1>1, <1>4, <2>1 DEF LimiterInv, FloodInv, UserInv, GuiltyInv
<1>5. CASE /\ ~Gate(u, i) /\ UNCHANGED refused
           /\ logins' = [logins EXCEPT ![a] =
                [st |-> "verifying", user |-> u, ip |-> i, right |-> right, t |-> now]]
  <2>1. ASSUME NEW j \in Ips, ipHits[j] # None
        PROVE  ipHits[j].count + Cardinality(Ahead(logins', j, ipHits[j].resetAt))
                 <= IpLimit + Cardinality(Logins) - 1
    <3> DEFINE r == ipHits[j].resetAt
    <3>1. ipHits[j] \in Entry /\ r \in Nat /\ now \in Nat
      BY <2>1 DEF Typed, TypeOK, Entry
    <3>2. CASE j = i /\ now < r
      <4>1. ipHits[j].count < IpLimit
        BY <1>5, <2>1, <3>1, <3>2, LimitAssumption DEF Gate, Limited, Elapsed, Entry
      <4>2. Cardinality(Ahead(logins', j, r)) <= Cardinality(Logins)
        BY AheadFinite
      <4> QED BY <3>1, <4>1, <4>2, AheadFinite, LimitAssumption DEF Entry
    <3>3. CASE ~(j = i /\ now < r)
      <4>1. Ahead(logins', j, r) \subseteq Ahead(logins, j, r)
        BY <1>5, <3>3 DEF Ahead, Typed, TypeOK
      <4>2. Cardinality(Ahead(logins', j, r)) <= Cardinality(Ahead(logins, j, r))
        BY <4>1, AheadShrinks
      <4> QED BY <2>1, <3>1, <4>2, AheadFinite, LimitAssumption DEF LimiterInv, FloodInv, Entry
    <3> QED BY <3>2, <3>3
  <2> QED BY <1>1, <1>5, <2>1 DEF LimiterInv, FloodInv, UserInv, GuiltyInv
<1> QED BY <1>2, <1>4, <1>5

\* A failure is counted for a login that leaves verification: the sum stands.
\* A new entry counts one, and one login less is ahead of it.
LEMMA RefuseLimiters ==
  ASSUME Typed, Typed', LimiterInv, NEW a \in Logins, Refuse(a) PROVE LimiterInv'
<1> DEFINE l == logins[a]
<1>1. /\ l \in Login /\ l.st = "verifying"
      /\ logins' = [logins EXCEPT ![a] = None]
      /\ ipHits' = Fail(ipHits, l.ip, l.t)
      /\ guilty' = guilty \cup {l.ip} /\ refused' = refused
  BY DEF Refuse, Typed, TypeOK
<1>2. l.ip \in Ips /\ l.user \in Users /\ l.t \in Nat
  BY <1>1 DEF Login
<1>3. FloodInv'
  <2>1. ASSUME NEW i \in Ips, ipHits'[i] # None
        PROVE  ipHits'[i].count + Cardinality(Ahead(logins', i, ipHits'[i].resetAt))
                 <= IpLimit + Cardinality(Logins) - 1
    <3>1. \A r : Ahead(logins', i, r) \subseteq Ahead(logins, i, r) \ {a}
      BY <1>1 DEF Ahead, Typed, TypeOK
    <3>2. CASE i # l.ip
      <4>1. ipHits'[i] = ipHits[i] /\ ipHits[i] \in Entry
        BY <1>1, <2>1, <3>2 DEF Fail, Typed, TypeOK
      <4>2. Cardinality(Ahead(logins', i, ipHits[i].resetAt)) <= Cardinality(Ahead(logins, i, ipHits[i].resetAt))
        BY <3>1, AheadShrinks
      <4> QED BY <2>1, <4>1, <4>2, AheadFinite, LimitAssumption DEF LimiterInv, FloodInv, Entry
    <3>3. CASE i = l.ip /\ Elapsed(ipHits[i], l.t)
      <4>1. ipHits'[i] = [count |-> 1, resetAt |-> l.t + Window]
        BY <1>1, <3>3 DEF Fail, Typed, TypeOK
      <4> DEFINE S == Ahead(logins', i, l.t + Window)
      <4>2. S \subseteq Logins \ {a}
        BY <3>1 DEF Ahead
      <4>3. /\ IsFiniteSet(Logins \ {a}) /\ Cardinality(Logins \ {a}) = Cardinality(Logins) - 1
        BY SetAssumption, FS_RemoveElement
      <4>4. Cardinality(S) <= Cardinality(Logins) - 1 /\ Cardinality(S) \in Nat
        BY <4>2, <4>3, FS_Subset, AheadFinite
      <4> QED BY <4>1, <4>4, AheadFinite, LimitAssumption
    <3>4. CASE i = l.ip /\ ~Elapsed(ipHits[i], l.t)
      <4> DEFINE r == ipHits[i].resetAt
      <4>1. ipHits[i] # None /\ ipHits[i] \in Entry /\ l.t < r
        BY <1>2, <3>4 DEF Elapsed, Typed, TypeOK, Entry
      <4>2. ipHits'[i] = [ipHits[i] EXCEPT !.count = @ + 1]
        BY <1>1, <3>4 DEF Fail, Typed, TypeOK
      <4>3. ipHits'[i].count = ipHits[i].count + 1 /\ ipHits'[i].resetAt = r
        BY <4>1, <4>2 DEF Entry
      <4>4. a \in Ahead(logins, i, r)
        BY <1>1, <3>4, <4>1, NoneAssumption DEF Ahead
      <4>5. Cardinality(Ahead(logins', i, r)) <= Cardinality(Ahead(logins, i, r)) - 1
        BY <3>1, <4>4, AheadWithout
      <4> QED BY <4>1, <4>3, <4>5, AheadFinite, LimitAssumption DEF LimiterInv, FloodInv, Entry
    <3> QED BY <3>2, <3>3, <3>4
  <2> QED BY <2>1 DEF FloodInv
<1>4. UserInv'
  <2>1. CASE UNCHANGED userHits
    BY <2>1 DEF LimiterInv, UserInv
  <2>2. CASE ~Limited(userHits[l.user], UserLimit, l.t) /\ userHits' = Fail(userHits, l.user, l.t)
    <3>1. ASSUME NEW u \in Users, userHits'[u] # None PROVE userHits'[u].count <= UserLimit
      <4>1. CASE u # l.user
        BY <2>2, <3>1, <4>1 DEF Fail, LimiterInv, UserInv, Typed, TypeOK
      <4>2. CASE u = l.user /\ Elapsed(userHits[u], l.t)
        BY <2>2, <4>2, LimitAssumption DEF Fail, Typed, TypeOK
      <4>3. CASE u = l.user /\ ~Elapsed(userHits[u], l.t)
        <5>1. userHits[u] \in Entry /\ userHits[u].count < UserLimit
          BY <2>2, <4>3, LimitAssumption DEF Elapsed, Limited, Typed, TypeOK, Entry
        <5>2. userHits'[u] = [userHits[u] EXCEPT !.count = @ + 1]
          BY <2>2, <4>3 DEF Fail, Typed, TypeOK
        <5>3. userHits'[u].count = userHits[u].count + 1
          BY <5>1, <5>2 DEF Entry
        <5> QED BY <5>1, <5>3, LimitAssumption DEF Entry
      <4> QED BY <4>1, <4>2, <4>3
    <3> QED BY <3>1 DEF UserInv
  <2> QED BY <2>1, <2>2 DEF Refuse
<1>5. GuiltyInv'
  <2>1. \A i \in Ips : ipHits'[i] # None => i = l.ip \/ ipHits[i] # None
    BY <1>1 DEF Fail, Typed, TypeOK
  <2> QED BY <1>1, <2>1 DEF LimiterInv, GuiltyInv
<1> QED BY <1>3, <1>4, <1>5 DEF LimiterInv

\* A success clears the counters of its user and its address.
LEMMA AcceptLimiters ==
  ASSUME Typed, Typed', LimiterInv, NEW a \in Logins, Accept(a) PROVE LimiterInv'
<1>1. /\ \A i \in Ips : ipHits'[i] # None => ipHits'[i] = ipHits[i]
      /\ \A u \in Users : userHits'[u] # None => userHits'[u] = userHits[u]
      /\ UNCHANGED <<guilty, refused>>
  BY DEF Accept, Typed, TypeOK
<1>2. \A b \in Logins : logins'[b] # None /\ logins'[b].st = "verifying" => logins'[b] = logins[b]
  BY DEF Accept, Typed, TypeOK, Login
<1>3. ASSUME NEW i \in Ips, ipHits'[i] # None
      PROVE  ipHits'[i].count + Cardinality(Ahead(logins', i, ipHits'[i].resetAt))
               <= IpLimit + Cardinality(Logins) - 1
  <2> DEFINE r == ipHits[i].resetAt
  <2>1. Ahead(logins', i, r) \subseteq Ahead(logins, i, r)
    BY <1>2 DEF Ahead
  <2>2. ipHits'[i] = ipHits[i] /\ ipHits[i] \in Entry
    BY <1>1, <1>3 DEF Typed, TypeOK
  <2> QED BY <1>3, <2>1, <2>2, AheadShrinks, AheadFinite, LimitAssumption DEF LimiterInv, FloodInv, Entry
<1> QED BY <1>1, <1>3 DEF LimiterInv, FloodInv, UserInv, GuiltyInv

\* Every step keeps the limiters' invariant.
LEMMA LimiterStep == Typed /\ Typed' /\ LimiterInv /\ [Next]_vars => LimiterInv'
<1> SUFFICES ASSUME Typed, Typed', LimiterInv, [Next]_vars PROVE LimiterInv'
  OBVIOUS
<1>1. ASSUME NEW a \in Logins, Upgrade(a) PROVE LimiterInv'
  <2>1. \A b \in Logins : logins'[b] # None => logins'[b] = logins[b]
    BY <1>1 DEF Upgrade, Typed, TypeOK
  <2> QED BY <1>1, <2>1, LimitersStand DEF Upgrade
<1>2. CASE UNCHANGED vars
  BY <1>2, LimitersStand DEF vars, serverVars
<1>3. ASSUME NEW token \in Tokens, Expire(token) PROVE LimiterInv'
  BY <1>3, LimitersStand DEF Expire
<1>4. CASE Boot \/ Save
  BY <1>4, LimitersStand DEF Boot, Save, serverVars
<1>5. CASE Tick \/ RequestSave \/ Edit
  BY <1>5, LimitersStand DEF Tick, RequestSave, Edit, Happen, serverVars
<1>6. CASE Crash
  <2>1. /\ \A i \in Ips : ipHits'[i] = None
        /\ \A u \in Users : userHits'[u] = None
        /\ UNCHANGED <<guilty, refused>>
    BY <1>6 DEF Crash, Happen, Nothing
  <2> QED BY <2>1 DEF LimiterInv, FloodInv, UserInv, GuiltyInv
<1> QED BY <1>1, <1>2, <1>3, <1>4, <1>5, <1>6, BeginLimiters, RefuseLimiters, AcceptLimiters DEF Next

-----------------------------------------------------------------------------
(* The sessions                                                            *)

SessionInv ==
  /\ \A s \in Tokens : sessions[s] # None => sessions[s] <= now
  /\ SweptAtLogin

\* A login's sweep leaves what was still good, and adds a session of now.
LEMMA SessionStep == Typed /\ Typed' /\ SessionInv /\ [Next]_vars => SessionInv'
<1> SUFFICES ASSUME Typed, Typed', SessionInv, [Next]_vars PROVE SessionInv'
  OBVIOUS
<1>1. now \in Nat /\ now' \in Nat /\ scenario' = scenario /\ scenario.maxAge \in Nat
      /\ sessions \in [Tokens -> Nat \cup {None}]
  BY ScenarioAssumption
  DEF Typed, TypeOK, Next, vars, Begin, Refuse, Accept, Upgrade, Expire, Boot, Save, Happen, Tick, RequestSave, Edit, Crash
<1>2. CASE CreateSession /\ now' = now
  <2>1. PICK token \in Tokens :
          sessions' = [s \in Tokens |->
            IF s = token THEN now
            ELSE IF sessions[s] # None /\ now - sessions[s] > SweepAge THEN None ELSE sessions[s]]
    BY <1>2 DEF CreateSession
  <2>2. ASSUME NEW s \in Tokens, sessions'[s] # None
        PROVE  sessions'[s] \in Nat /\ sessions'[s] <= now /\ now - sessions'[s] <= scenario.maxAge
    <3>1. CASE s = token
      BY <1>1, <2>1, <3>1
    <3>2. CASE s # token
      <4>1. sessions'[s] = sessions[s] /\ ~(now - sessions[s] > scenario.maxAge)
        BY <2>1, <2>2, <3>2 DEF SweepAge
      <4>2. sessions[s] \in Nat
        BY <1>1, <2>2, <4>1
      <4> QED BY <1>1, <2>2, <4>1, <4>2 DEF SessionInv
    <3> QED BY <3>1, <3>2
  <2>3. ASSUME NEW s \in Tokens, NEW t \in Tokens, sessions'[s] # None, sessions'[t] # None
        PROVE  sessions'[t] - sessions'[s] <= scenario'.maxAge
    BY <1>1, <2>2, <2>3
  <2> QED BY <1>2, <2>2, <2>3 DEF SessionInv, SweptAtLogin
<1>3. CASE now <= now' /\ \A s \in Tokens : sessions'[s] # None => sessions'[s] = sessions[s]
  <2>1. ASSUME NEW s \in Tokens, sessions'[s] # None PROVE sessions'[s] <= now'
    <3>1. sessions[s] \in Nat /\ sessions[s] <= now
      BY <1>1, <1>3, <2>1 DEF SessionInv
    <3> QED BY <1>1, <1>3, <2>1, <3>1
  <2>2. SweptAtLogin'
    BY <1>1, <1>3 DEF SessionInv, SweptAtLogin
  <2> QED BY <2>1, <2>2 DEF SessionInv
<1>4. ASSUME NEW a \in Logins, Accept(a) PROVE SessionInv'
  BY <1>1, <1>2, <1>3, <1>4 DEF Accept
<1>5. ASSUME NEW a \in Logins, Upgrade(a) PROVE SessionInv'
  BY <1>2, <1>5 DEF Upgrade
<1>6. ASSUME NEW token \in Tokens, Expire(token) PROVE SessionInv'
  BY <1>1, <1>3, <1>6 DEF Expire
<1>7. CASE Tick
  BY <1>1, <1>3, <1>7 DEF Tick, serverVars
<1>8. CASE Crash
  <2>1. (\A s \in Tokens : sessions'[s] = None) /\ now' = now
    BY <1>8 DEF Crash, Nothing
  <2> QED BY <1>1, <1>3, <2>1
<1>9. CASE UNCHANGED <<sessions, now>>
  BY <1>1, <1>3, <1>9
<1>10. CASE UNCHANGED vars \/ Boot \/ Save \/ RequestSave \/ Edit
  BY <1>9, <1>10 DEF vars, Boot, Save, RequestSave, Edit, serverVars
<1>11. ASSUME NEW a \in Logins, Begin(a) \/ Refuse(a) PROVE SessionInv'
  BY <1>9, <1>11 DEF Begin, Refuse
<1> QED BY <1>4, <1>5, <1>6, <1>7, <1>8, <1>10, <1>11 DEF Next

-----------------------------------------------------------------------------
(* The configuration                                                       *)

\* What the file may have of a user beside the live credential: the operator's
\* edit, or what was there before a re-hashing that was not saved.
Agree ==
  \A u \in Users :
    \/ file.users[u] = config.users[u]
    \/ u \in edited /\ file.users[u] = [pw |-> "edited", form |-> "bcrypt"]
    \/ /\ u \in missed /\ config.users[u] # None
       /\ file.users[u] = [config.users[u] EXCEPT !.form = "old"]

FileInv ==
  /\ IsDoc => file.host = "file"
  /\ Loaded.schedule = settled
  /\ up /\ ~override => IsDoc /\ Agree
  /\ override => \A k \in 1..Len(saves) : ~saves[k].users

\* A step that leaves the file and both sides of the agreement alone.
LEMMA FileStands ==
  ASSUME FileInv, UNCHANGED <<file, config, override, settled, edited, missed>>,
         up' => up, saves' = saves \/ saves' = <<>>, saves \in Seq(Changes)
  PROVE  FileInv'
BY DEF FileInv, Agree, IsDoc, Loaded

\* A boot without an override takes the credentials as they are in the file.
LEMMA BootFile == ASSUME Typed, Typed', FileInv, Boot PROVE FileInv'
<1>1. PICK host \in {Loaded.host, "env"}, form \in {None, "old", "bcrypt"}, admin \in Users :
        LET doc == ApplyPasswordOverride([Loaded EXCEPT !.host = host], admin, form)
        IN Valid(doc) /\ config' = doc /\ override' = (form # None)
  BY DEF Boot, LoadConfig
<1>2. /\ edited' = {} /\ missed' = {} /\ saves' = <<>> /\ UNCHANGED <<file, settled>>
  BY DEF Boot, LoadConfig
<1>3. ASSUME ~override' PROVE IsDoc' /\ Agree'
  <2>1. config' = [Loaded EXCEPT !.host = host] /\ Valid(config')
    BY <1>1, <1>3 DEF ApplyPasswordOverride
  <2>2. Loaded \in Docs
    BY LoadedIsDoc DEF Typed, TypeOK, ConfigTypeOK
  <2>3. config'.users = Loaded.users /\ \E u \in Users : Loaded.users[u] # None
    BY <2>1, <2>2 DEF Valid, Docs
  <2>4. IsDoc
    BY <2>3 DEF Loaded, DefaultDoc
  <2> QED BY <1>2, <2>3, <2>4 DEF IsDoc, Loaded, Agree
<1> QED BY <1>2, <1>3 DEF FileInv, IsDoc, Loaded

\* A queued save writes the live credentials or none, and of a setting only
\* what somebody has asked for.
LEMMA SaveFile == ASSUME Typed, Typed', FileInv, Save PROVE FileInv'
<1>1. saves \in Seq(Changes) /\ saves # <<>> /\ saves' = Tail(saves)
      /\ UNCHANGED <<up, config, override, edited, missed>>
  BY DEF Save, RunSave, Typed, TypeOK, ConfigTypeOK
<1>2. Head(saves) = saves[1] /\ Head(saves) \in Changes /\ 1 \in 1..Len(saves)
      /\ \A k \in 1..Len(saves') : k + 1 \in 1..Len(saves) /\ saves'[k] = saves[k + 1]
  BY <1>1, HeadTailProperties, EmptySeq
<1>3. override' => \A k \in 1..Len(saves') : ~saves'[k].users
  BY <1>1, <1>2 DEF FileInv
<1>4. CASE UNCHANGED <<file, settled>>
  BY <1>1, <1>3, <1>4 DEF FileInv, Agree, IsDoc, Loaded
<1>5. CASE /\ file # Corrupt
           /\ file' = Merged(Loaded, Head(saves))
           /\ settled' = IF Head(saves).schedule = None THEN settled ELSE Head(saves).schedule
  <2>1. Loaded \in Docs /\ config \in Docs
    BY LoadedIsDoc DEF Typed, TypeOK, ConfigTypeOK
  <2>2. /\ file' \in Docs /\ file'.host = Loaded.host
        /\ file'.users = IF Head(saves).users THEN config.users ELSE Loaded.users
        /\ file'.schedule = IF Head(saves).schedule = None THEN Loaded.schedule ELSE Head(saves).schedule
    BY <1>2, <1>5, <2>1 DEF Merged, Docs, Changes
  <2>3. IsDoc' /\ Loaded' = file'
    BY <2>2, ConfigAssumption DEF IsDoc, Loaded
  <2>4. file'.host = "file"
    BY <2>2 DEF FileInv, IsDoc, Loaded, DefaultDoc
  <2>5. Loaded'.schedule = settled'
    BY <1>5, <2>2, <2>3 DEF FileInv
  <2>6. up' /\ ~override' => Agree'
    BY <1>1, <2>2 DEF FileInv, Agree, Loaded
  <2> QED BY <1>3, <2>3, <2>4, <2>5, <2>6 DEF FileInv
<1> QED BY <1>4, <1>5 DEF Save, RunSave

\* A login's own save writes the live credential of every user the file has.
LEMMA UpgradeFile == ASSUME Typed, Typed', FileInv, NEW a \in Logins, Upgrade(a) PROVE FileInv'
<1> DEFINE u == logins[a].user
           live == [config.users EXCEPT ![u].form = "bcrypt"]
<1>1. logins[a] \in Login /\ config.users[u] # None /\ u \in Users /\ config.users \in [Users -> Cred \cup {None}]
  BY DEF Upgrade, Typed, TypeOK, LoginInv, Login, ConfigTypeOK, Docs
<1>2. /\ config' = [config EXCEPT !.users = live]
      /\ UNCHANGED <<override, saves, edited, settled, up>>
      /\ \/ missed' = missed \cup {u} /\ UNCHANGED file
         \/ missed' = {} /\ file' = IF IsDoc THEN CredentialUpgrades(live) ELSE file
  BY DEF Upgrade, UpgradeCredential
<1>3. config'.users = live /\ \A x \in Users : live[x] = None <=> config.users[x] = None
  <2>1. config'.users = live
    BY <1>2 DEF Typed, TypeOK, ConfigTypeOK, Docs
  <2>2. \A x \in Users : live[x] = None <=> config.users[x] = None
    BY <1>1, ConfigAssumption DEF Cred
  <2> QED BY <2>1, <2>2
<1>4. CASE missed' = missed \cup {u} /\ UNCHANGED file
  <2>1. \A x \in Users \ {u} : live[x] = config.users[x]
    BY <1>1
  <2>2. live[u] = [config.users[u] EXCEPT !.form = "bcrypt"] /\ config.users[u] \in Cred
    BY <1>1
  <2>3. [live[u] EXCEPT !.form = "old"] = [config.users[u] EXCEPT !.form = "old"]
        /\ config.users[u] \in {live[u], [live[u] EXCEPT !.form = "old"]}
    BY <2>2 DEF Cred
  <2>4. ASSUME Agree PROVE Agree'
    <3>1. \A x \in Users \ {u} :
            \/ file'.users[x] = config'.users[x]
            \/ x \in edited' /\ file'.users[x] = [pw |-> "edited", form |-> "bcrypt"]
            \/ /\ x \in missed' /\ config'.users[x] # None
               /\ file'.users[x] = [config'.users[x] EXCEPT !.form = "old"]
      BY <1>2, <1>3, <1>4, <2>1, <2>4 DEF Agree
    <3>2. \/ file'.users[u] = config'.users[u]
          \/ u \in edited' /\ file'.users[u] = [pw |-> "edited", form |-> "bcrypt"]
          \/ /\ u \in missed' /\ config'.users[u] # None
             /\ file'.users[u] = [config'.users[u] EXCEPT !.form = "old"]
      BY <1>1, <1>2, <1>3, <1>4, <2>3, <2>4 DEF Agree
    <3> QED BY <3>1, <3>2 DEF Agree
  <2> QED BY <1>2, <1>4, <2>4 DEF FileInv, IsDoc, Loaded
<1>5. CASE missed' = {} /\ ~IsDoc /\ file' = file
  BY <1>2, <1>5 DEF FileInv, IsDoc, Loaded
<1>6. CASE missed' = {} /\ IsDoc /\ file' = CredentialUpgrades(live)
  <2>1. file \in Docs
    BY <1>6 DEF IsDoc, Typed, TypeOK, ConfigTypeOK
  <2>2. /\ file'.host = file.host /\ file'.schedule = file.schedule
        /\ \A x \in Users : file'.users[x] =
             IF file.users[x] = None \/ live[x] = None THEN file.users[x] ELSE live[x]
    BY <1>6, <2>1 DEF CredentialUpgrades, Docs
  <2>3. file' \in Docs
    BY <1>1, <1>6, <2>1, ConfigAssumption DEF CredentialUpgrades, Docs, Cred
  <2>4. IsDoc' /\ Loaded' = file' /\ Loaded = file
    BY <1>6, <2>3, ConfigAssumption DEF IsDoc, Loaded
  <2>5. ASSUME Agree PROVE Agree'
    <3>1. None # [pw |-> "edited", form |-> "bcrypt"]
          /\ \A x \in Users : config.users[x] # None => None # [config.users[x] EXCEPT !.form = "old"]
      BY <1>1, ConfigAssumption DEF Cred
    <3> QED BY <1>2, <1>3, <1>6, <2>2, <2>5, <3>1 DEF Agree
  <2> QED BY <1>2, <1>6, <2>2, <2>4, <2>5 DEF FileInv
<1> QED BY <1>2, <1>4, <1>5, <1>6

\* Every step keeps what is known of the file.
LEMMA FileStep == Typed /\ Typed' /\ FileInv /\ [Next]_vars => FileInv'
<1> SUFFICES ASSUME Typed, Typed', FileInv, [Next]_vars PROVE FileInv'
  OBVIOUS
<1>1. saves \in Seq(Changes)
  BY DEF Typed, TypeOK, ConfigTypeOK
<1>2. CASE UNCHANGED vars \/ Tick
  BY <1>1, <1>2, FileStands DEF vars, configVars, Tick
<1>3. ASSUME NEW a \in Logins, Begin(a) \/ Refuse(a) \/ Accept(a) PROVE FileInv'
  BY <1>1, <1>3, FileStands DEF Begin, Refuse, Accept, configVars
<1>4. ASSUME NEW token \in Tokens, Expire(token) PROVE FileInv'
  BY <1>1, <1>4, FileStands DEF Expire, configVars
<1>5. CASE Crash
  BY <1>1, <1>5, FileStands DEF Crash
<1>6. CASE RequestSave
  <2>1. UNCHANGED <<file, config, override, settled, edited, missed, up>>
    BY <1>6 DEF RequestSave
  <2>2. PICK change : saves' = Append(saves, change) /\ (override => ~change.users)
    <3>1. CASE \E s \in Schedules : saves' = Append(saves, [users |-> FALSE, schedule |-> s])
      BY <3>1
    <3>2. CASE saves' = Append(saves, Difference)
      <4>1. Difference.users = (~override /\ config.users # file.users)
        BY DEF Difference
      <4>2. override => ~Difference.users
        BY <4>1
      <4> QED BY <3>2, <4>2
    <3> QED BY <1>6, <3>1, <3>2 DEF RequestSave, CallSave
  <2>3. override' => \A k \in 1..Len(saves') : ~saves'[k].users
    <3>1. Len(saves') = Len(saves) + 1 /\ \A k \in 1..Len(saves') :
            saves'[k] = IF k = Len(saves) + 1 THEN change ELSE saves[k]
      BY <1>1, <2>2
    <3>2. ASSUME override, NEW k \in 1..Len(saves') PROVE ~saves'[k].users
      <4>1. CASE k = Len(saves) + 1
        BY <2>2, <3>1, <3>2, <4>1
      <4>2. CASE k # Len(saves) + 1
        <5>1. k \in 1..Len(saves)
          BY <1>1, <3>1, <3>2, <4>2
        <5> QED BY <3>1, <3>2, <4>2, <5>1 DEF FileInv
      <4> QED BY <4>1, <4>2
    <3> QED BY <2>1, <3>2
  <2> QED BY <2>1, <2>3 DEF FileInv, Agree, IsDoc, Loaded
<1>7. CASE Edit
  <2>1. PICK u \in Users : EditCredential(u)
    BY <1>7 DEF Edit
  <2>2. file \in Docs /\ [pw |-> "edited", form |-> "bcrypt"] \in Cred
    BY <2>1 DEF EditCredential, IsDoc, Typed, TypeOK, ConfigTypeOK, Cred
  <2>3. /\ file' \in Docs /\ file'.host = file.host /\ file'.schedule = file.schedule
        /\ \A x \in Users \ {u} : file'.users[x] = file.users[x]
        /\ file'.users[u] = [pw |-> "edited", form |-> "bcrypt"]
    BY <2>1, <2>2 DEF EditCredential, Docs
  <2>4. /\ edited' = edited \cup {u} /\ UNCHANGED <<config, override, saves, missed, settled, up>>
    BY <1>7, <2>1 DEF Edit, EditCredential
  <2>5. IsDoc /\ IsDoc' /\ Loaded' = file' /\ Loaded = file
    BY <2>1, <2>3, ConfigAssumption DEF EditCredential, IsDoc, Loaded
  <2>6. Agree => Agree'
    BY <2>3, <2>4 DEF Agree
  <2> QED BY <2>3, <2>4, <2>5, <2>6 DEF FileInv
<1> QED BY <1>2, <1>3, <1>4, <1>5, <1>6, <1>7, BootFile, SaveFile, UpgradeFile DEF Next

-----------------------------------------------------------------------------
(* Shut out until time passes or a login succeeds                          *)

\* Nobody's clock is ahead: a login under way arrived at some time until now.
ArrivedInv == \A a \in Logins : logins[a] # None => logins[a].t <= now

LEMMA ArrivedStep == Typed /\ Typed' /\ ArrivedInv /\ [Next]_vars => ArrivedInv'
<1> SUFFICES ASSUME Typed, Typed', ArrivedInv, [Next]_vars PROVE ArrivedInv'
  OBVIOUS
<1>1. now \in Nat /\ now' \in Nat /\ logins \in [Logins -> Login \cup {None}]
      /\ \A b \in Logins : logins[b] # None => logins[b] \in Login /\ logins[b].t \in Nat
  BY DEF Typed, TypeOK, Login
<1>2. CASE /\ now' >= now
           /\ \A b \in Logins : logins'[b] # None =>
                logins[b] # None /\ logins'[b].t = logins[b].t
  BY <1>1, <1>2 DEF ArrivedInv
<1>3. ASSUME NEW a \in Logins, Begin(a) PROVE ArrivedInv'
  <2>1. now' = now /\ \A b \in Logins : logins'[b] = logins[b] \/ logins'[b].t = now
    BY <1>1, <1>3 DEF Begin
  <2> QED BY <1>1, <2>1 DEF ArrivedInv
<1>4. ASSUME NEW a \in Logins, Refuse(a) \/ Accept(a) \/ Upgrade(a) PROVE ArrivedInv'
  <2>1. now' = now /\ logins[a] # None
        /\ (logins' = [logins EXCEPT ![a] = None] \/ logins' = [logins EXCEPT ![a].st = "hashing"])
    BY <1>4 DEF Refuse, Accept, Upgrade
  <2>2. logins[a] \in Login
    BY <1>1, <2>1
  <2>3. \A b \in Logins : logins'[b] # None => logins[b] # None /\ logins'[b].t = logins[b].t
    BY <1>1, <2>1, <2>2 DEF Login
  <2> QED BY <1>1, <1>2, <2>1, <2>3
<1>5. CASE Tick
  BY <1>1, <1>2, <1>5 DEF Tick, serverVars
<1>6. CASE Crash
  BY <1>6 DEF Crash, Nothing, ArrivedInv
<1>7. CASE UNCHANGED <<logins, now>>
  BY <1>1, <1>2, <1>7
<1>8. CASE UNCHANGED vars \/ Boot \/ Save \/ RequestSave \/ Edit
  BY <1>7, <1>8 DEF vars, Boot, Save, RequestSave, Edit, serverVars
<1>9. ASSUME NEW token \in Tokens, Expire(token) PROVE ArrivedInv'
  BY <1>7, <1>9 DEF Expire
<1> QED BY <1>3, <1>4, <1>5, <1>6, <1>8, <1>9 DEF Next

\* A failed login counts by the clock of its arrival, which is not ahead: an
\* entry that still holds is neither restarted nor pruned.
LEMMA FailKeepsLimit ==
  ASSUME ipHits \in [Ips -> Entry \cup {None}], NEW i \in Ips, NEW k \in Ips,
         NEW t \in Nat, now \in Nat, t <= now, Limited(ipHits[i], IpLimit, now)
  PROVE  Limited(Fail(ipHits, k, t)[i], IpLimit, now)
<1> DEFINE e == ipHits[i]
<1>1. e # None /\ e \in Entry /\ e.resetAt \in Nat /\ e.count \in Nat
      /\ e.resetAt > now /\ e.count >= IpLimit
  BY DEF Limited, Elapsed, Entry
<1>2. ~Elapsed(e, t)
  BY <1>1 DEF Elapsed
<1>3. Fail(ipHits, k, t)[i] = IF i = k THEN [e EXCEPT !.count = @ + 1] ELSE e
  BY <1>2 DEF Fail
<1>4. CASE i # k
  BY <1>3, <1>4
<1>5. CASE i = k
  <2>1. Fail(ipHits, k, t)[i] \in Entry
        /\ Fail(ipHits, k, t)[i].resetAt = e.resetAt /\ Fail(ipHits, k, t)[i].count = e.count + 1
    BY <1>1, <1>3, <1>5 DEF Entry
  <2>2. Fail(ipHits, k, t)[i] # None
    BY <2>1, NoneAssumption
  <2> QED BY <1>1, <2>1, <2>2, LimitAssumption DEF Limited, Elapsed
<1> QED BY <1>4, <1>5

\* A step that leaves an address's entry and the clock, and sends nobody new
\* into verification.
LEMMA ShutOutStands ==
  ASSUME NEW i \in Ips, Limited(ipHits[i], IpLimit, now), now' = now, ipHits'[i] = ipHits[i],
         \A b \in Logins : logins'[b] = logins[b] \/ logins'[b] = None \/ logins'[b].st = "hashing"
  PROVE  Limited(ipHits'[i], IpLimit, now') /\ Verifying(i)' \subseteq Verifying(i)
BY DEF Verifying, Limited, Elapsed

-----------------------------------------------------------------------------
(* Theorems                                                                *)

IInv == Typed /\ LimiterInv /\ SessionInv /\ FileInv /\ ArrivedInv

\* The invariant holds of the first state, whatever the scenario.
LEMMA InitIInv == Init => IInv
<1> SUFFICES ASSUME Init PROVE IInv
  OBVIOUS
<1>1. scenario \in Scenarios /\ scenario.files \subseteq FromOperator \cup {Missing, Corrupt}
  BY ScenarioAssumption DEF Init
<1>2. file \in Docs \cup {Missing, Corrupt} /\ (IsDoc => file.host = "file")
  BY <1>1 DEF Init, FromOperator, IsDoc
<1>3. /\ \A a \in Logins : logins[a] = None
      /\ \A i \in Ips : ipHits[i] = None
      /\ \A u \in Users : userHits[u] = None
      /\ \A s \in Tokens : sessions[s] = None
  BY DEF Init, Nothing
<1>4. DefaultDoc \in Docs /\ Loaded \in Docs /\ Loaded.schedule \in Schedules
  BY <1>2, ConfigAssumption, LoadedIsDoc DEF DefaultDoc, Docs
<1>5. ConfigTypeOK
  BY <1>2, <1>4, EmptySeq DEF Init, ConfigInit, ConfigTypeOK
<1>6. Typed
  BY <1>3, <1>5 DEF Init, Nothing, Typed, TypeOK, LoginInv
<1>7. LimiterInv /\ SessionInv
  BY <1>3 DEF Init, LimiterInv, FloodInv, UserInv, GuiltyInv, SessionInv, SweptAtLogin
<1>8. FileInv
  BY <1>2 DEF Init, ConfigInit, FileInv
<1>9. ArrivedInv
  BY <1>3 DEF ArrivedInv
<1> QED BY <1>6, <1>7, <1>8, <1>9 DEF IInv

\* The inductive invariant: types, limiters, sessions and the configuration
\* (auth.mjs, config.mjs).
THEOREM Invariance == Spec => []IInv
<1>1. IInv /\ [Next]_vars => IInv'
  BY TypeStep, LimiterStep, SessionStep, FileStep, ArrivedStep DEF IInv
<1> QED BY InitIInv, <1>1, PTL DEF Spec

\* Every variable keeps its type, whatever the users, limits and scenarios.
THEOREM TypeCorrect == Spec => []TypeOK
<1>1. IInv => TypeOK
  BY DEF IInv, Typed
<1> QED BY <1>1, Invariance, PTL

\* However many logins overlap their password checks, an address gets past its
\* limit by fewer failures than there are clients, and an account never gets
\* past its own (login's gate and limiters, auth.mjs).
THEOREM FailuresAreBounded == Spec => []FailuresBounded
<1>1. IInv => FailuresBounded
  <2> SUFFICES ASSUME Typed, FloodInv, UserInv PROVE FailuresBounded
    BY DEF IInv, LimiterInv
  <2>1. ASSUME NEW i \in Ips, ipHits[i] # None
        PROVE  ipHits[i].count <= IpLimit + Cardinality(Logins) - 1
    <3>1. ipHits[i] \in Entry
      BY <2>1 DEF Typed, TypeOK
    <3> QED BY <2>1, <3>1, AheadFinite, LimitAssumption DEF FloodInv, Entry
  <2> QED BY <2>1 DEF FailuresBounded, UserInv
<1> QED BY <1>1, Invariance, PTL

\* A right password is refused only at an address that failures have come from
\* (the lockout separation of auth.mjs).
THEOREM InnocentGetsIn == Spec => []InnocentAddressGetsIn
<1>1. IInv => InnocentAddressGetsIn
  BY DEF IInv, LimiterInv, GuiltyInv, InnocentAddressGetsIn
<1> QED BY <1>1, Invariance, PTL

\* The store holds only sessions that were good at the last login
\* (createSession, auth.mjs), for any maximum age.
THEOREM SessionsSwept == Spec => []SweptAtLogin
<1>1. IInv => SweptAtLogin
  BY DEF IInv, SessionInv
<1> QED BY <1>1, Invariance, PTL

\* Without an environment override a credential in config.json is the live one,
\* the operator's edit, or the live one before a re-hashing that was not saved;
\* and the setting is the last that a save has written (config.mjs).
THEOREM FileAndMemoryAgree == Spec => []FileAgreesWithMemory
<1>1. IInv => FileAgreesWithMemory
  BY DEF IInv, FileInv, Agree, FileAgreesWithMemory, Loaded
<1> QED BY <1>1, Invariance, PTL

\* Nothing of the environment gets into config.json, but for a credential that
\* a login's own upgrade writes, and that for a user the file has (config.mjs).
THEOREM EnvKeptOut == Spec => EnvStaysOut
<1> DEFINE Step == /\ IsDoc' => file'.host = "file"
                   /\ override => EnvUsers' \subseteq EnvUsers \cup (IF Upgrading THEN FileUsers ELSE {})
<1>1. ASSUME IInv, IInv', [Next]_vars PROVE Step
  <2>1. IsDoc' => file'.host = "file"
    BY <1>1 DEF IInv, FileInv
  <2>2. CASE file' = file
    BY <2>1, <2>2 DEF EnvUsers, FileUsers, IsDoc
  <2>3. CASE Save
    <3>1. ASSUME override, file' # file PROVE EnvUsers' \subseteq EnvUsers
      <4>1. saves \in Seq(Changes) /\ saves # <<>> /\ Loaded \in Docs
            /\ file' = Merged(Loaded, Head(saves))
        BY <1>1, <2>3, <3>1, LoadedIsDoc DEF IInv, Typed, TypeOK, ConfigTypeOK, Save, RunSave
      <4>2. Head(saves) = saves[1] /\ 1 \in 1..Len(saves) /\ Head(saves) \in Changes
        BY <4>1, HeadTailProperties, EmptySeq
      <4>3. ~Head(saves).users
        BY <1>1, <3>1, <4>2 DEF IInv, FileInv
      <4>4. file'.users = Loaded.users
        BY <4>1, <4>3 DEF Merged, Docs
      <4> QED BY <4>4 DEF EnvUsers, FileUsers, IsDoc, Loaded, DefaultDoc
    <3> QED BY <2>1, <2>2, <3>1
  <2>4. ASSUME NEW a \in Logins, Upgrade(a) PROVE Step
    <3>1. Upgrading
      BY <1>1, <2>4 DEF Upgrade, Upgrading, IInv, Typed, TypeOK
    <3>2. PICK live : file' \in {file, IF IsDoc THEN CredentialUpgrades(live) ELSE file}
      BY <2>4 DEF Upgrade, UpgradeCredential
    <3>3. IsDoc => file \in Docs
      BY <1>1 DEF IsDoc, IInv, Typed, TypeOK, ConfigTypeOK
    <3>4. FileUsers' \subseteq FileUsers
      <4>1. CASE file' = file
        BY <4>1 DEF FileUsers, IsDoc
      <4>2. CASE IsDoc /\ file' = CredentialUpgrades(live)
        <5>1. \A x \in Users : file.users[x] = None => file'.users[x] = None
          BY <3>3, <4>2 DEF CredentialUpgrades, Docs
        <5> QED BY <4>2, <5>1 DEF FileUsers
      <4> QED BY <3>2, <4>1, <4>2
    <3> QED BY <2>1, <3>1, <3>4 DEF EnvUsers
  <2>5. CASE Edit
    <3>1. PICK u \in Users : EditCredential(u)
      BY <2>5 DEF Edit
    <3>2. IsDoc /\ file \in Docs
      BY <1>1, <3>1 DEF EditCredential, IInv, Typed, TypeOK, ConfigTypeOK, IsDoc
    <3>3. \A x \in Users : file'.users[x] = file.users[x] \/ file'.users[x].pw = "edited"
      BY <3>1, <3>2 DEF EditCredential, Docs
    <3>4. EnvUsers' \subseteq EnvUsers
      BY <3>2, <3>3 DEF EnvUsers, FileUsers, IsDoc
    <3> QED BY <2>1, <3>4
  <2>6. CASE UNCHANGED vars \/ Tick \/ RequestSave \/ Crash \/ Boot
    BY <2>2, <2>6 DEF vars, configVars, Tick, RequestSave, Crash, Boot, LoadConfig
  <2>7. ASSUME NEW a \in Logins, Begin(a) \/ Refuse(a) \/ Accept(a) PROVE Step
    BY <2>2, <2>7 DEF Begin, Refuse, Accept, configVars
  <2>8. ASSUME NEW token \in Tokens, Expire(token) PROVE Step
    BY <2>2, <2>8 DEF Expire, configVars
  <2> QED BY <1>1, <2>3, <2>4, <2>5, <2>6, <2>7, <2>8 DEF Next
<1>2. IInv /\ IInv' /\ [Next]_vars => [Step]_vars
  BY <1>1
<1> QED BY <1>2, Invariance, PTL DEF Spec, EnvStaysOut

\* An address at its limit is shut out until time passes, one of its logins
\* succeeds or the process ends: no other address, no save and no login that
\* was past the gate already opens it again, for a failure counts by the clock
\* of its arrival (login's gate and LoginLimiter.fail, auth.mjs).
THEOREM ShutOutUntilLater == Spec => ShutOutStays
<1> DEFINE Kept(i) == Limited(ipHits'[i], IpLimit, now') /\ Verifying(i)' \subseteq Verifying(i)
           Step == \A i \in Ips :
             /\ Limited(ipHits[i], IpLimit, now) /\ now' = now /\ up'
             /\ ~\E a \in Logins : logins[a] # None /\ logins[a].ip = i /\ Accept(a)
             => Kept(i)
<1>1. ASSUME IInv, [Next]_vars PROVE Step
  <2> SUFFICES ASSUME NEW i \in Ips, Limited(ipHits[i], IpLimit, now), now' = now, up',
                      ~\E a \in Logins : logins[a] # None /\ logins[a].ip = i /\ Accept(a)
               PROVE  Kept(i)
    OBVIOUS
  <2>1. now \in Nat /\ ipHits \in [Ips -> Entry \cup {None}] /\ logins \in [Logins -> Login \cup {None}]
    BY <1>1 DEF IInv, Typed, TypeOK
  <2>2. ASSUME NEW a \in Logins, Begin(a) PROVE Kept(i)
    <3>1. PICK u \in Users, k \in scenario.ips, right \in {TRUE, ~scenario.guesses} :
            logins' = logins \/
            /\ ~Limited(ipHits[k], IpLimit, now)
            /\ logins' = [logins EXCEPT ![a] =
                 [st |-> "verifying", user |-> u, ip |-> k, right |-> right, t |-> now]]
      BY <2>2 DEF Begin, Gate
    <3>2. logins' = logins \/ k # i
      BY <3>1
    <3>3. Verifying(i)' \subseteq Verifying(i)
      BY <2>1, <3>1, <3>2 DEF Verifying
    <3> QED BY <2>2, <3>3 DEF Begin
  <2>3. ASSUME NEW a \in Logins, Refuse(a) PROVE Kept(i)
    <3>1. /\ logins[a] \in Login /\ logins[a].ip \in Ips /\ logins[a].t \in Nat /\ logins[a].t <= now
          /\ ipHits' = Fail(ipHits, logins[a].ip, logins[a].t)
          /\ logins' = [logins EXCEPT ![a] = None]
      BY <1>1, <2>1, <2>3 DEF Refuse, IInv, ArrivedInv, Login
    <3>2. Limited(ipHits'[i], IpLimit, now)
      BY <2>1, <3>1, FailKeepsLimit
    <3>3. Verifying(i)' \subseteq Verifying(i)
      BY <2>1, <3>1 DEF Verifying
    <3> QED BY <3>2, <3>3
  <2>4. ASSUME NEW a \in Logins, Accept(a) PROVE Kept(i)
    <3>1. logins[a] \in Login /\ logins[a].ip # i
          /\ ipHits' = [ipHits EXCEPT ![logins[a].ip] = None]
          /\ (logins' = [logins EXCEPT ![a] = None] \/ logins' = [logins EXCEPT ![a].st = "hashing"])
      BY <2>1, <2>4 DEF Accept
    <3>2. ipHits'[i] = ipHits[i]
      BY <2>1, <3>1
    <3>3. \A b \in Logins : logins'[b] = logins[b] \/ logins'[b] = None \/ logins'[b].st = "hashing"
      BY <2>1, <3>1 DEF Login
    <3> QED BY <3>2, <3>3, ShutOutStands
  <2>5. ASSUME NEW a \in Logins, Upgrade(a) PROVE Kept(i)
    BY <2>1, <2>5, ShutOutStands DEF Upgrade
  <2>6. CASE UNCHANGED <<logins, ipHits>>
    BY <2>6, ShutOutStands
  <2>7. CASE UNCHANGED vars \/ Boot \/ Save \/ RequestSave \/ Edit
    BY <2>6, <2>7 DEF vars, Boot, Save, RequestSave, Edit, serverVars
  <2>8. ASSUME NEW token \in Tokens, Expire(token) PROVE Kept(i)
    BY <2>6, <2>8 DEF Expire
  <2>9. ~Tick
    <3>1. now' = now + 1 => now' # now
      BY <2>1
    <3> QED BY <3>1 DEF Tick
  <2>10. ~Crash
    BY Zenon DEF Crash
  <2> QED BY <1>1, <2>2, <2>3, <2>4, <2>5, <2>7, <2>8, <2>9, <2>10 DEF Next
<1>2. IInv /\ [Next]_vars => [Step]_vars
  BY <1>1
<1> QED BY <1>2, Invariance, PTL DEF Spec, ShutOutStays
=============================================================================
