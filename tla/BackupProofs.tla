---------------------------- MODULE BackupProofs ----------------------------
(***************************************************************************)
(* Theorems about Backup, for any set of files, any number of hours and    *)
(* any limit: a number of either sign, or none at all.                     *)
(***************************************************************************)
EXTENDS Backup, FiniteSetTheorems, WellFoundedInduction, TLAPS

\* No archive is of an hour to come.
PastOnly == \A h \in Hours : archives[h].exists => h <= hour

IInv == TypeOK /\ PastOnly

ListOf(a) == a \in [Hours -> Archives] /\ \A h \in Hours : a[h].exists => h <= hour

-----------------------------------------------------------------------------
(* Sets of hours                                                           *)

\* Every set of hours is finite, and a subset of it has no more elements.
LEMMA HoursFinite ==
  ASSUME NEW S \in SUBSET Hours
  PROVE  IsFiniteSet(S) /\ Cardinality(S) \in Nat
<1>1. IsFiniteSet(Hours)
  BY FS_Interval, BoundsAssumption DEF Hours
<1>2. IsFiniteSet(S)
  BY <1>1, FS_Subset
<1> QED
  BY <1>2, FS_CardinalityType

\* A set of hours has a first one.
LEMMA FirstHour ==
  ASSUME NEW S \in SUBSET Hours, S # {}
  PROVE  \E m \in S : \A h \in S : m <= h
<1>1. S \subseteq Nat
  BY BoundsAssumption DEF Hours
<1>2. PICK m \in S : \A h \in S : ~ (<<h, m>> \in OpToRel(<, Nat))
  BY <1>1, WFMin, NatLessThanWellFounded
<1>3. \A h \in S : ~ (h < m)
  BY <1>1, <1>2 DEF OpToRel
<1> QED
  BY <1>1, <1>3

-----------------------------------------------------------------------------
(* The operators                                                           *)

\* An archive written in this hour is one of the archives.
LEMMA WrittenType ==
  ASSUME IInv, NEW a \in Archives
  PROVE  ListOf(Written(a)) /\ \A h \in Hours \ {hour} : Written(a)[h] = archives[h]
BY BoundsAssumption DEF IInv, TypeOK, PastOnly, ListOf, Written, Slot, Hours

\* Rotation leaves an archive as it is or deletes it.
LEMMA RotateType ==
  ASSUME hour \in Hours, NEW a, ListOf(a), Rotate(a)
  PROVE  /\ ListOf(archives')
         /\ \A h \in Hours : archives'[h] \in {a[h], Gone}
         /\ undeleted' \subseteq Hours
<1>1. Gone \in Archives
  BY BoundsAssumption DEF Gone, Archives, Contents
<1>2. \A h \in Hours : archives'[h] \in {a[h], Gone}
  BY DEF Rotate
<1>3. ~ Gone.exists
  BY DEF Gone
<1>4. archives' \in [Hours -> Archives]
  BY <1>1 DEF Rotate, ListOf
<1>5. undeleted' \subseteq Hours
  BY DEF Rotate, Excess, Listed
<1> QED
  BY <1>2, <1>3, <1>4, <1>5 DEF ListOf

\* Whatever a backup leaves: archives, of which only this hour's may be new.
LEMMA BackupKeeps ==
  ASSUME IInv, NEW ok \in BOOLEAN, MakeBackup(ok)
  PROVE  /\ ListOf(archives')
         /\ \A h \in Hours \ {hour} : archives'[h] \in {archives[h], Gone}
         /\ undeleted' \subseteq Hours
<1>1. hour \in Hours /\ data \in Contents /\ ListOf(archives)
  BY DEF IInv, TypeOK, PastOnly, ListOf
<1>2. ArchiveOf(data) \in Archives
  BY <1>1 DEF ArchiveOf, Archives
<1>3. CASE Rotate(Written(ArchiveOf(data)))
  BY <1>1, <1>2, <1>3, WrittenType, RotateType
<1>4. CASE archives' \in LeftByTar /\ undeleted' = {}
  <2>1. CASE archives' = archives
    BY <1>1, <1>4, <2>1
  <2>2. CASE archives' = Written(ArchiveOf(data))
    BY <1>2, <1>4, <2>2, WrittenType
  <2>3. ASSUME NEW c \in Contents,
               archives' = Written([exists |-> TRUE, whole |-> FALSE, files |-> c])
        PROVE  ListOf(archives') /\ \A h \in Hours \ {hour} : archives'[h] \in {archives[h], Gone}
    <3>1. [exists |-> TRUE, whole |-> FALSE, files |-> c] \in Archives
      BY DEF Archives
    <3> QED
      BY <2>3, <3>1, WrittenType
  <2> QED
    BY <1>4, <2>1, <2>2, <2>3 DEF LeftByTar
<1> QED
  BY <1>3, <1>4 DEF MakeBackup

\* The fresh archive of a successful backup survives its own rotation, by the
\* size that the answer gives.
LEMMA FreshIsKept ==
  ASSUME IInv, MakeBackup(TRUE)
  PROVE  archives'[hour] = ArchiveOf(data)
<1> DEFINE w == Written(ArchiveOf(data))
<1>1. hour \in Hours /\ data \in Contents
  BY DEF IInv, TypeOK
<1>2. ArchiveOf(data) \in Archives
  BY <1>1 DEF ArchiveOf, Archives
<1>3. w[hour] = ArchiveOf(data)
  BY <1>1 DEF Written, Slot, IInv, TypeOK
<1>4. Rotate(w) /\ archives'[hour].exists
  BY DEF MakeBackup, Slot
<1>5. archives'[hour] \in {w[hour], Gone}
  BY <1>1, <1>2, <1>4, WrittenType, RotateType
<1> QED
  BY <1>3, <1>4, <1>5 DEF Gone

\* Of an archive list, what rotation leaves and did not fail to delete.
LEMMA RotateLists ==
  ASSUME NEW a, Rotate(a)
  PROVE  /\ Listed(archives') \ undeleted' = Listed(a) \ Excess(a)
         /\ Listed(a) \ Listed(archives') \subseteq Excess(a)
<1>1. Excess(a) \subseteq Listed(a) /\ undeleted' \subseteq Excess(a)
  BY DEF Excess, Rotate
<1>2. \A h \in Hours : archives'[h] = IF h \in Excess(a) \ undeleted' THEN Gone ELSE a[h]
  BY DEF Rotate
<1>3. Listed(archives') = Listed(a) \ (Excess(a) \ undeleted')
  BY <1>2 DEF Listed, Gone
<1> QED
  BY <1>1, <1>3

\* Where the limit is a number of archives, no more than that many are within it.
LEMMA WithinLimit ==
  ASSUME NEW a, maxBackups \in Nat
  PROVE  Cardinality(Listed(a) \ Excess(a)) <= maxBackups
<1> DEFINE K == Listed(a) \ Excess(a)
<1>1. K = {h \in Listed(a) : ~ (Cardinality(Newer(a, h)) >= maxBackups)}
  BY LimitsAssumption DEF Excess
<1>2. /\ K \in SUBSET Hours
      /\ \A h : Newer(a, h) \in SUBSET Hours
  BY DEF Listed, Newer
<1>3. \A h \in Listed(a) : h \in Nat
  BY BoundsAssumption DEF Hours, Listed
<1>4. CASE K = {}
  BY <1>4, FS_EmptySet
<1>5. CASE K # {}
  <2>1. PICK m \in K : \A h \in K : m <= h
    BY <1>2, <1>5, FirstHour
  <2>2. K \ {m} \subseteq Newer(a, m)
    <3>1. \A h \in K \ {m} : h \in Listed(a) /\ h > m
      BY <1>3, <2>1
    <3> QED
      BY <3>1 DEF Newer
  <2>3. IsFiniteSet(Newer(a, m)) /\ Cardinality(Newer(a, m)) \in Nat
    BY <1>2, HoursFinite
  <2>4. Cardinality(Newer(a, m)) < maxBackups
    BY <1>1, <2>1, <2>3
  <2>5. Cardinality(K \ {m}) <= Cardinality(Newer(a, m))
    BY <2>2, <2>3, FS_Subset
  <2>6. IsFiniteSet(K) /\ Cardinality(K) \in Nat
    BY <1>2, HoursFinite
  <2>7. Cardinality(K \ {m}) = Cardinality(K) - 1
    BY <2>1, <2>6, FS_RemoveElement
  <2> QED
    BY <2>3, <2>4, <2>5, <2>6, <2>7
<1> QED
  BY <1>4, <1>5

\* What is beyond the limit, whatever the limit is, is older than what is within.
LEMMA ExcessIsOldest ==
  ASSUME maxBackups \in Limits, NEW a,
         NEW old \in Excess(a), NEW kept \in Listed(a) \ Excess(a)
  PROVE  kept > old
<1>1. old \in Listed(a) /\ old \in Nat /\ kept \in Nat
  BY BoundsAssumption DEF Excess, Listed, Hours
<1>2. \A h : Newer(a, h) \in SUBSET Hours /\ Older(a, h) \in SUBSET Hours
  BY DEF Newer, Older, Listed
<1>3. \A g \in Listed(a) : g \in Nat
  BY BoundsAssumption DEF Listed, Hours
<1>4. maxBackups \in Int
  BY LimitsAssumption DEF Excess
<1>5. SUFFICES ASSUME kept < old PROVE FALSE
  BY <1>1
<1>6. Newer(a, old) \subseteq Newer(a, kept) /\ Older(a, kept) \subseteq Older(a, old)
  <2>1. \A g \in Listed(a) : (g > old => g > kept) /\ (g < kept => g < old)
    BY <1>1, <1>3, <1>5
  <2> QED
    BY <2>1 DEF Newer, Older
<1>7. /\ IsFiniteSet(Newer(a, kept)) /\ IsFiniteSet(Older(a, old))
      /\ \A h : Cardinality(Newer(a, h)) \in Nat /\ Cardinality(Older(a, h)) \in Nat
  BY <1>2, HoursFinite
<1>8. /\ Cardinality(Newer(a, old)) <= Cardinality(Newer(a, kept))
      /\ Cardinality(Older(a, kept)) <= Cardinality(Older(a, old))
  BY <1>6, <1>7, FS_Subset
<1>9. CASE maxBackups >= 0
  <2>1. Excess(a) = {h \in Listed(a) : Cardinality(Newer(a, h)) >= maxBackups}
    BY <1>4, <1>9, LimitsAssumption DEF Excess
  <2> QED
    BY <1>4, <1>7, <1>8, <2>1
<1>10. CASE ~ (maxBackups >= 0)
  <2>1. Excess(a) = {h \in Listed(a) : Cardinality(Older(a, h)) < -maxBackups}
    BY <1>4, <1>10, LimitsAssumption DEF Excess
  <2> QED
    BY <1>4, <1>7, <1>8, <2>1
<1> QED
  BY <1>9, <1>10

\* The tree after an unpacking, whole or not, is a tree.
LEMMA OverlayType ==
  ASSUME IInv, NEW a \in Archives
  PROVE  Unpacked(a) \subseteq Contents /\ HalfUnpacked(a) \subseteq Contents
BY BoundsAssumption DEF IInv, TypeOK, Archives, Contents, Unpacked, HalfUnpacked, Overlay

-----------------------------------------------------------------------------
(* The invariant                                                           *)

\* The types, and that no archive is of an hour to come, hold of every behaviour.
LEMMA InvariantHolds == Spec => []IInv
<1>1. Init => IInv
  <2> SUFFICES ASSUME Init PROVE IInv
    OBVIOUS
  <2>1. 0 \in Hours /\ 0 \in 0 .. MaxRequests
    BY BoundsAssumption DEF Hours
  <2>2. Gone \in Archives /\ ~ Gone.exists
    BY BoundsAssumption DEF Gone, Archives, Contents
  <2>3. TypeOK
    BY <2>1, <2>2 DEF Init, TypeOK
  <2>4. PastOnly
    BY <2>2 DEF Init, PastOnly
  <2> QED
    BY <2>3, <2>4 DEF IInv
<1>2. IInv /\ [Next]_vars => IInv'
  <2> SUFFICES ASSUME IInv, [Next]_vars PROVE IInv'
    OBVIOUS
  <2>1. CASE UNCHANGED vars
    BY <2>1 DEF vars, IInv, TypeOK, PastOnly
  <2>2. CASE CreateBackup
    <3>1. PICK ok \in BOOLEAN : /\ MakeBackup(ok)
                                /\ Answer("create", hour, ok, FALSE)
                                /\ UNCHANGED <<hour, data, live, maxBackups>>
      BY <2>2 DEF CreateBackup
    <3>2. ListOf(archives') /\ undeleted' \subseteq Hours
      BY <3>1, BackupKeeps
    <3> QED
      BY <3>1, <3>2, BoundsAssumption DEF IInv, TypeOK, PastOnly, ListOf, Answer
  <2>3. ASSUME NEW h \in Hours, RestoreBackup(h) PROVE IInv'
    <3>1. CASE UNCHANGED <<archives, data, live, undeleted>> /\ Answer("restore", h, FALSE, FALSE)
      BY <2>3, <3>1, BoundsAssumption DEF RestoreBackup, IInv, TypeOK, PastOnly, Answer
    <3>2. ASSUME NEW safe \in BOOLEAN, NEW ok \in BOOLEAN,
                 MakeBackup(safe),
                 data' \in HalfUnpacked(archives'[h]) \cup Unpacked(archives'[h]),
                 live' \in BOOLEAN, Answer("restore", h, ok, safe)
          PROVE  IInv'
      <4>1. ListOf(archives') /\ undeleted' \subseteq Hours
        BY <3>2, BackupKeeps
      <4>2. data' \in Contents
        BY <3>2, <4>1, OverlayType DEF ListOf
      <4> QED
        BY <2>3, <3>2, <4>1, <4>2, BoundsAssumption
        DEF RestoreBackup, IInv, TypeOK, PastOnly, ListOf, Answer
    <3> QED
      BY <2>3, <3>1, <3>2 DEF RestoreBackup, IInv, TypeOK
  <2>4. CASE Tick
    BY <2>4, BoundsAssumption DEF Tick, IInv, TypeOK, PastOnly, Hours
  <2>5. CASE StartOrStop
    BY <2>5 DEF StartOrStop, IInv, TypeOK, PastOnly
  <2>6. ASSUME NEW f \in Files, ServerWrites(f) PROVE IInv'
    BY <2>6 DEF ServerWrites, IInv, TypeOK, PastOnly, Contents
  <2> QED
    BY <2>1, <2>2, <2>3, <2>4, <2>5, <2>6 DEF Next
<1> QED
  BY <1>1, <1>2, PTL DEF Spec

\* Every variable keeps its type, whatever the bounds.
THEOREM TypeCorrect == Spec => []TypeOK
<1>1. IInv => TypeOK
  BY DEF IInv
<1> QED
  BY <1>1, InvariantHolds, PTL

-----------------------------------------------------------------------------
(* The action properties                                                   *)

\* An answered restore, by the cases of the code: refused, failed, done.
LEMMA RestoreCases ==
  ASSUME NEW h \in Hours, RestoreBackup(h)
  PROVE  \/ archives' = archives /\ data' = data /\ ~ reply'.ok /\ ~ reply'.safe
         \/ \E safe \in BOOLEAN :
              /\ MakeBackup(safe)
              /\ reply'.safe = safe
              /\ reply'.ok => data' \in Unpacked(archives'[h])
BY DEF RestoreBackup, Answer

\* A step that answers is a backup or a restore, of the hour it says.
LEMMA WhoAnswers ==
  ASSUME IInv, [Next]_vars
  PROVE  /\ Answered("create") => CreateBackup
         /\ Answered("restore") => \E h \in Hours : RestoreBackup(h) /\ reply'.of = h
<1>1. CASE UNCHANGED vars
  BY <1>1 DEF vars, Answered
<1>2. CASE CreateBackup
  <2>1. reply'.op = "create"
    BY <1>2 DEF CreateBackup, Answer
  <2> QED
    BY <1>2, <2>1 DEF Answered
<1>3. ASSUME NEW h \in Hours, RestoreBackup(h)
      PROVE  reply'.op = "restore" /\ reply'.of = h
  BY <1>3 DEF RestoreBackup, Answer
<1>4. CASE Tick \/ StartOrStop \/ \E f \in Files : ServerWrites(f)
  BY <1>4 DEF Tick, StartOrStop, ServerWrites, Answered
<1> QED
  BY <1>1, <1>2, <1>3, <1>4 DEF Next, Answered

\* Retention, whatever the limit and whichever deletions fail: a successful
\* backup, also a restore's own, leaves the fresh archive, deletes none that is
\* newer than one within the limit, and where the limit is a number of archives
\* leaves more than that only by deletions that failed just now.
THEOREM NewestKept == Spec => RetentionKeepsNewest
<1> DEFINE Kept == /\ hour \in Listed(archives')
                   /\ \A old \in Listed(archives) \ Listed(archives') :
                        \A kept \in Listed(archives') \ undeleted' : kept > old
                   /\ maxBackups \in Nat =>
                        Cardinality(Listed(archives') \ undeleted') <= maxBackups
<1>1. ASSUME IInv, MakeBackup(TRUE) PROVE Kept
  <2> DEFINE w == Written(ArchiveOf(data))
  <2>1. Rotate(w)
    BY <1>1 DEF MakeBackup
  <2>2. Listed(archives) \subseteq Listed(w)
    <3>1. \A h \in Hours : w[h] = archives[h] \/ w[h].exists
      BY <1>1 DEF Written, Slot, ArchiveOf, IInv, TypeOK
    <3> QED
      BY <3>1 DEF Listed
  <2>3. hour \in Hours /\ archives'[hour].exists
    <3>1. archives'[hour] = ArchiveOf(data)
      BY <1>1, FreshIsKept
    <3> QED
      BY <1>1, <3>1 DEF ArchiveOf, IInv, TypeOK
  <2>4. /\ Listed(archives') \ undeleted' = Listed(w) \ Excess(w)
        /\ Listed(w) \ Listed(archives') \subseteq Excess(w)
    BY <2>1, RotateLists
  <2>5. maxBackups \in Limits
    BY <1>1 DEF IInv, TypeOK
  <2>6. \A old \in Listed(archives) \ Listed(archives') :
          \A kept \in Listed(archives') \ undeleted' : kept > old
    BY <2>2, <2>4, <2>5, ExcessIsOldest
  <2>7. maxBackups \in Nat => Cardinality(Listed(archives') \ undeleted') <= maxBackups
    BY <2>4, WithinLimit
  <2> QED
    BY <2>3, <2>6, <2>7 DEF Listed
<1>2. ASSUME IInv, [Next]_vars,
             (Answered("create") /\ reply'.ok) \/ (Answered("restore") /\ reply'.safe)
      PROVE  MakeBackup(TRUE)
  <2>1. CASE Answered("create") /\ reply'.ok
    <3>1. PICK ok \in BOOLEAN : MakeBackup(ok) /\ Answer("create", hour, ok, FALSE)
      BY <1>2, <2>1, WhoAnswers DEF CreateBackup
    <3>2. reply'.ok = ok
      BY <3>1 DEF Answer
    <3>3. ok = TRUE
      BY <2>1, <3>2
    <3> QED
      BY <3>1, <3>3
  <2>2. CASE Answered("restore") /\ reply'.safe
    <3>1. PICK h \in Hours : RestoreBackup(h)
      BY <1>2, <2>2, WhoAnswers
    <3> QED
      BY <2>2, <3>1, RestoreCases
  <2> QED
    BY <1>2, <2>1, <2>2
<1>3. IInv /\ [Next]_vars =>
        [(Answered("create") /\ reply'.ok) \/ (Answered("restore") /\ reply'.safe) => Kept]_vars
  BY <1>1, <1>2
<1> QED
  BY <1>3, InvariantHolds, PTL DEF Spec, RetentionKeepsNewest

\* No step writes an archive of a past hour: it stays until rotation deletes it.
THEOREM PastStands == Spec => PastArchivesStand
<1> DEFINE Stands == \A h \in Hours : h < hour => archives'[h] \in {archives[h], Gone}
<1>1. ASSUME IInv, NEW ok \in BOOLEAN, MakeBackup(ok) PROVE Stands
  BY <1>1, BackupKeeps, BoundsAssumption DEF Hours, IInv, TypeOK
<1>2. ASSUME IInv, Next PROVE Stands
  <2>1. CASE CreateBackup
    BY <1>1, <1>2, <2>1 DEF CreateBackup
  <2>2. ASSUME NEW h \in Hours, RestoreBackup(h) PROVE Stands
    BY <1>1, <1>2, <2>2, RestoreCases
  <2>3. CASE Tick \/ StartOrStop \/ \E f \in Files : ServerWrites(f)
    BY <2>3 DEF Tick, StartOrStop, ServerWrites
  <2> QED
    BY <1>2, <2>1, <2>2, <2>3 DEF Next
<1> QED
  BY <1>2, InvariantHolds, PTL DEF Spec, PastArchivesStand

\* An answered restore of another hour's archive brought back what the archive
\* held when the restore was asked for: rotation may delete that archive, and
\* then there is no such answer, but it cannot change it.
THEOREM OtherHoursBroughtBack == Spec => RestoreBringsBackOtherHours
<1>1. ASSUME IInv, [Next]_vars,
             Answered("restore"), reply'.ok, reply'.of # hour
      PROVE  BringsBack(reply'.of)
  <2>1. PICK h \in Hours : RestoreBackup(h) /\ reply'.of = h
    BY <1>1, WhoAnswers
  <2>2. PICK safe \in BOOLEAN : MakeBackup(safe) /\ data' \in Unpacked(archives'[h])
    BY <1>1, <2>1, RestoreCases
  <2>3. archives'[h] \in {archives[h], Gone}
    BY <1>1, <2>1, <2>2, BackupKeeps
  <2>4. archives'[h] = archives[h] /\ data' = Overlay(archives[h].files)
    BY <2>2, <2>3 DEF Unpacked, Gone
  <2> QED
    BY <1>1, <2>1, <2>4 DEF BringsBack, Overlay
<1> QED
  BY <1>1, InvariantHolds, PTL DEF Spec, RestoreBringsBackOtherHours

\* After a restore whose safety backup succeeded, an archive holds the data of
\* before, whole.
THEOREM OverwrittenIsSafe == Spec => OverwrittenDataIsSafe
<1>1. ASSUME IInv, [Next]_vars, Answered("restore"), reply'.safe
      PROVE  ArchiveOf(data) \in {archives'[h] : h \in Hours}
  <2>1. PICK h \in Hours : RestoreBackup(h)
    BY <1>1, WhoAnswers
  <2>2. MakeBackup(TRUE)
    BY <1>1, <2>1, RestoreCases
  <2>3. archives'[hour] = ArchiveOf(data) /\ hour \in Hours
    BY <1>1, <2>2, FreshIsKept DEF IInv, TypeOK
  <2> QED
    BY <2>3
<1> QED
  BY <1>1, InvariantHolds, PTL DEF Spec, OverwrittenDataIsSafe
=============================================================================
