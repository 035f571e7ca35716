------------------------- MODULE LauncherQueueProofs -------------------------
(***************************************************************************)
(* LauncherQueue's two invariants, for any number of clicks, jobs, logons, *)
(* deaths, restarts and faults.  The argument: IInv of module              *)
(* LauncherQueue is inductive.  First the order of a listing, then what    *)
(* single steps of the page, of the server and of the launcher do to IInv, *)
(* then the actions.                                                       *)
(***************************************************************************)
EXTENDS LauncherQueue, Integers, FiniteSetTheorems, TLAPS

\* How many members of S are not above j.
Rank(S, j) == Cardinality({i \in S : i <= j})

\* Ranks grow with the members.
LEMMA RankGrows ==
  ASSUME NEW S, S \subseteq Jobs, NEW i \in S, NEW j \in S, i < j
  PROVE  Rank(S, i) < Rank(S, j)
<1> DEFINE A == {k \in S : k <= i}
           B == {k \in S : k <= j}
<1>1. S \subseteq Int
  BY DEF Jobs
<1>2. IsFiniteSet(S)
  <2>1. IsFiniteSet(Jobs)
    BY LauncherAssumption, FS_Interval DEF Jobs
  <2>2. QED
    BY <2>1, FS_Subset
<1>3. IsFiniteSet(B)
  BY <1>2, FS_Subset
<1>4. A \subseteq B /\ j \in B /\ j \notin A
  <2>1. i \in Int /\ j \in Int /\ \A k \in S : k \in Int
    BY <1>1
  <2>2. \A k \in S : k <= i => k <= j
    BY <2>1
  <2>3. j <= j /\ ~(j <= i)
    BY <2>1
  <2>4. QED
    BY <2>2, <2>3
<1> HIDE DEF A, B
<1>5. /\ Cardinality(A) <= Cardinality(B)
      /\ Cardinality(A) = Cardinality(B) => A = B
  BY <1>3, <1>4, FS_Subset
<1>6. Cardinality(A) \in Nat /\ Cardinality(B) \in Nat
  BY <1>3, <1>4, FS_Subset, FS_CardinalityType
<1>7. Cardinality(A) < Cardinality(B)
  BY <1>4, <1>5, <1>6
<1>8. QED
  BY <1>7 DEF A, B, Rank

\* Every rank is taken: by the pigeonhole principle, for ranks differ.
LEMMA RankTaken ==
  ASSUME NEW S, S \subseteq Jobs, NEW n \in 1..Cardinality(S)
  PROVE  \E j \in S : Rank(S, j) = n
<1> DEFINE N == Cardinality(S)
           f == [j \in S |-> Rank(S, j)]
<1>1. IsFiniteSet(S) /\ N \in Nat
  <2>1. IsFiniteSet(Jobs)
    BY LauncherAssumption, FS_Interval DEF Jobs
  <2>2. QED
    BY <2>1, FS_Subset, FS_CardinalityType
<1>2. \A j \in S : Rank(S, j) \in 1..N
  <2>1. SUFFICES ASSUME NEW j \in S
                 PROVE  Rank(S, j) \in 1..N
    OBVIOUS
  <2> DEFINE A == {i \in S : i <= j}
  <2>2. A \in SUBSET S /\ j \in A
    BY DEF Jobs
  <2> HIDE DEF A
  <2>3. IsFiniteSet(A) /\ Cardinality(A) <= N
    BY <1>1, <2>2, FS_Subset
  <2>4. Cardinality(A) \in Nat /\ (Cardinality(A) = 0 <=> A = {})
    BY <2>3, FS_CardinalityType, FS_EmptySet
  <2>5. Cardinality(A) \in 1..N
    BY <1>1, <2>2, <2>3, <2>4
  <2>6. QED
    BY <2>5 DEF Rank, A
<1>3. f \in [S -> 1..N]
  BY <1>2
<1>4. \A i, j \in S : f[i] = f[j] => i = j
  <2>1. SUFFICES ASSUME NEW i \in S, NEW j \in S, Rank(S, i) = Rank(S, j), i < j \/ j < i
                 PROVE  FALSE
    BY DEF Jobs
  <2>2. Rank(S, i) \in 1..N /\ Rank(S, j) \in 1..N
    BY <1>2
  <2>3. Rank(S, i) < Rank(S, j) \/ Rank(S, j) < Rank(S, i)
    BY <2>1, RankGrows
  <2>4. QED
    BY <2>1, <2>2, <2>3
<1>5. f \in Injection(S, 1..N)
  BY <1>3, <1>4 DEF Injection, IsInjective
<1>6. IsFiniteSet(1..N) /\ Cardinality(1..N) = N
  BY <1>1, FS_Interval
<1>7. f \in Surjection(S, 1..N)
  BY <1>5, <1>6, FS_Injection
<1>8. PICK j \in S : f[j] = n
  BY <1>7 DEF Surjection
<1>9. QED
  BY <1>8

\* A listing holds every file once, the older ones before the newer ones.
LEMMA InOrderSorted ==
  ASSUME NEW S, S \subseteq Jobs
  PROVE  /\ InOrder(S) \in Seq(Jobs)
         /\ \A n \in 1..Len(InOrder(S)) : InOrder(S)[n] \in S
         /\ \A m, n \in 1..Len(InOrder(S)) : m < n => InOrder(S)[m] < InOrder(S)[n]
         /\ \A j \in S : \E n \in 1..Len(InOrder(S)) : InOrder(S)[n] = j
         /\ S # {} => InOrder(S) # <<>>
<1> DEFINE N == Cardinality(S)
           q == InOrder(S)
<1>1. IsFiniteSet(S) /\ N \in Nat
  <2>1. IsFiniteSet(Jobs)
    BY LauncherAssumption, FS_Interval DEF Jobs
  <2>2. QED
    BY <2>1, FS_Subset, FS_CardinalityType
<1>2. q = [n \in 1..N |-> CHOOSE j \in S : Rank(S, j) = n]
  BY DEF InOrder, Rank
<1>3. \A n \in 1..N : q[n] \in S /\ Rank(S, q[n]) = n
  <2>1. SUFFICES ASSUME NEW n \in 1..N
                 PROVE  q[n] \in S /\ Rank(S, q[n]) = n
    OBVIOUS
  <2>2. \E j \in S : Rank(S, j) = n
    BY RankTaken
  <2>3. q[n] = CHOOSE j \in S : Rank(S, j) = n
    BY <1>2
  <2>4. QED
    BY <2>2, <2>3
<1>4. q \in [1..N -> Jobs]
  <2>1. \A n \in 1..N : q[n] \in Jobs
    BY <1>3
  <2>2. QED
    BY <1>2, <2>1
<1> HIDE DEF q, N
<1>5. q \in Seq(Jobs) /\ Len(q) = N
  BY <1>1, <1>4
<1>6. \A m, n \in 1..N : m < n => q[m] < q[n]
  <2>1. SUFFICES ASSUME NEW m \in 1..N, NEW n \in 1..N, m < n, ~(q[m] < q[n])
                 PROVE  FALSE
    OBVIOUS
  <2>2. q[m] \in S /\ q[n] \in S /\ Rank(S, q[m]) = m /\ Rank(S, q[n]) = n
    BY <1>3
  <2>3. q[m] \in Int /\ q[n] \in Int /\ m \in Int /\ n \in Int
    <3>1. \A j \in S : j \in Int
      BY DEF Jobs
    <3>2. m \in Int /\ n \in Int
      BY <1>1, <2>1
    <3>3. QED
      BY <2>2, <3>1, <3>2
  <2>4. q[m] = q[n] \/ q[n] < q[m]
    BY <2>1, <2>3
  <2>5. q[m] = q[n] \/ Rank(S, q[n]) < Rank(S, q[m])
    BY <2>2, <2>4, RankGrows
  <2>6. QED
    BY <2>1, <2>2, <2>3, <2>5
<1>7. \A j \in S : \E n \in 1..N : q[n] = j
  <2>1. SUFFICES ASSUME NEW j \in S
                 PROVE  \E n \in 1..N : q[n] = j
    OBVIOUS
  <2> DEFINE n == Rank(S, j)
             A == {i \in S : i <= j}
  <2>2. A \in SUBSET S /\ j \in A
    BY DEF Jobs
  <2> HIDE DEF A
  <2>3. IsFiniteSet(A) /\ Cardinality(A) <= N
    BY <1>1, <2>2, FS_Subset DEF N
  <2>4. Cardinality(A) \in Nat /\ (Cardinality(A) = 0 <=> A = {})
    BY <2>3, FS_CardinalityType, FS_EmptySet
  <2>5. Cardinality(A) \in 1..N
    BY <1>1, <2>2, <2>3, <2>4
  <2>6. n \in 1..N
    BY <2>5 DEF Rank, A
  <2> HIDE DEF n
  <2>7. q[n] \in S /\ Rank(S, q[n]) = Rank(S, j)
    BY <1>3, <2>6 DEF n
  <2>8. q[n] \in Int /\ j \in Int /\ Rank(S, j) \in Int
    <3>1. \A i \in S : i \in Int
      BY DEF Jobs
    <3>2. Rank(S, j) \in 1..N
      BY <2>6 DEF n
    <3>3. Rank(S, j) \in Int
      BY <1>1, <3>2
    <3>4. QED
      BY <2>7, <3>1, <3>3
  <2>9. ~(q[n] < j) /\ ~(j < q[n])
    <3>1. q[n] < j => Rank(S, q[n]) < Rank(S, j)
      BY <2>7, RankGrows
    <3>2. j < q[n] => Rank(S, j) < Rank(S, q[n])
      BY <2>7, RankGrows
    <3>3. QED
      BY <2>7, <2>8, <3>1, <3>2
  <2>10. q[n] = j
    BY <2>8, <2>9
  <2>11. QED
    BY <2>6, <2>10
<1>8. S # {} => q # <<>>
  <2>1. S # {} => N # 0
    BY <1>1, FS_EmptySet DEF N
  <2>2. QED
    BY <1>5, <2>1
<1>9. QED
  BY <1>3, <1>5, <1>6, <1>7, <1>8 DEF q

-----------------------------------------------------------------------------
\* Steps that leave the queue, the runs and the answers alone.
LEMMA ElsewhereStep ==
  ASSUME IInv, UNCHANGED <<pageVars, serving, queueVars, todo, got, runVars>>,
         hits' \in 0..MaxHits, hits' <= hits,
         launcher' = launcher \/ (launcher' \in {"off", "list"} /\ launcher \in {"off", "list", "beat"}),
         beat' \in BOOLEAN /\ user' \in BOOLEAN /\ recent' \in BOOLEAN,
         registered' \in BOOLEAN /\ trigger' \in BOOLEAN /\ died' \in BOOLEAN /\ missed' \in BOOLEAN,
         watch' \in {"off", "polling", "done"}, left' \in Bounds
  PROVE  IInv'
<1>1. /\ page' = page /\ backlog' = backlog /\ serving' = serving /\ created' = created
      /\ owner' = owner /\ file' = file /\ todo' = todo /\ got' = got /\ log' = log
      /\ opened' = opened /\ kept' = kept
  BY DEF pageVars, queueVars, runVars
<1>2. TypeOK'
  BY <1>1 DEF IInv, TypeOK
<1>3. \A j \in Jobs : Opened(j)' = Opened(j)
  BY <1>1 DEF Opened
<1>4. 1..created \subseteq Jobs
  BY LauncherAssumption DEF IInv, TypeOK, Jobs
<1>5. LoggedBeforeGone' /\ MirroredIsQueued'
  BY <1>1 DEF IInv, LoggedBeforeGone, MirroredIsQueued
<1>6. RefusedStaysShut'
  BY <1>1, <1>3, <1>4 DEF IInv, RefusedStaysShut
<1>7. ServingOK'
  <2>1. hits < MaxHits => hits' < MaxHits
    BY LauncherAssumption DEF IInv, TypeOK
  <2>2. QED
    BY <1>1, <2>1 DEF IInv, ServingOK
<1>8. OwnersOK'
  BY <1>1 DEF IInv, OwnersOK
<1>9. \A j \in Jobs : (Handling(j)' <=> Handling(j)) /\ (Unwritten(j)' <=> Unwritten(j))
  BY <1>1 DEF Handling, Unwritten
<1>10. UnwrittenOK'
  BY <1>1, <1>3, <1>9 DEF IInv, UnwrittenOK
<1>11. TodoOK'
  BY <1>1, <1>9 DEF IInv, TodoOK, Handling
<1>12. OpenedOK'
  BY <1>1, <1>3 DEF IInv, OpenedOK
<1>13. QED
  BY <1>2, <1>5, <1>6, <1>7, <1>8, <1>10, <1>11, <1>12 DEF IInv

\* The bounds stay bounds.
LEMMA SpendType ==
  ASSUME TypeOK, NEW what \in {"clicks", "logons", "deaths", "restarts", "faults", "probes"},
         Spend(what)
  PROVE  left' \in Bounds
<1>1. left \in Bounds /\ left[what] - 1 \in Nat
  BY SMTT(60) DEF TypeOK, Bounds, Spend
<1>2. QED
  BY <1>1 DEF Spend, Bounds

\* The same of a call that may fail.
LEMMA WorksType ==
  ASSUME TypeOK, NEW ok \in BOOLEAN, Works(ok)
  PROVE  left' \in Bounds
  BY SpendType DEF Works, TypeOK

\* The launcher and its task may be started, or not.
LEMMA SessionSteps ==
  ASSUME IInv,
         \/ HitExpires \/ Health \/ BeatAges \/ Logon \/ EventAges
         \/ TaskStarts \/ TaskRestarts \/ WatchFires \/ Beats
  PROVE  IInv'
<1>1. /\ TypeOK /\ hits \in 0..MaxHits /\ left \in Bounds /\ watch \in {"off", "polling", "done"}
      /\ beat \in BOOLEAN /\ user \in BOOLEAN /\ recent \in BOOLEAN
      /\ registered \in BOOLEAN /\ trigger \in BOOLEAN /\ died \in BOOLEAN /\ missed \in BOOLEAN
  BY DEF IInv, TypeOK
<1>2. CASE HitExpires
  <2>1. hits' \in 0..MaxHits /\ hits' <= hits
    BY <1>1, <1>2, LauncherAssumption DEF HitExpires
  <2>2. QED
    BY <1>1, <1>2, <2>1, ElsewhereStep DEF HitExpires, serviceVars, sessionVars
<1>3. hits <= hits
  BY <1>1
<1>4. CASE Health
  <2>1. watch' \in {"off", "polling", "done"}
    BY <1>1, <1>4 DEF Health, StartWatch
  <2>2. QED
    BY <1>1, <1>3, <1>4, <2>1, ElsewhereStep DEF Health, serverVars, serviceVars
<1>5. CASE BeatAges
  BY <1>1, <1>3, <1>5, ElsewhereStep DEF BeatAges, serverVars, serviceVars, sessionVars
<1>6. CASE Logon
  <2>1. left' \in Bounds
    BY <1>1, <1>6, SpendType DEF Logon
  <2>2. QED
    BY <1>1, <1>3, <1>6, <2>1, ElsewhereStep DEF Logon, serverVars, serviceVars
<1>7. CASE EventAges
  BY <1>1, <1>3, <1>7, ElsewhereStep DEF EventAges, serverVars, serviceVars
<1>8. CASE TaskStarts
  BY <1>1, <1>3, <1>8, ElsewhereStep DEF TaskStarts, Starts, serverVars, serviceVars
<1>9. CASE TaskRestarts
  BY <1>1, <1>3, <1>9, ElsewhereStep DEF TaskRestarts, Starts, serverVars, sessionVars
<1>10. CASE WatchFires
  <2>1. PICK ok \in BOOLEAN, started \in BOOLEAN, noted \in BOOLEAN :
          /\ Works(ok /\ started /\ noted) /\ registered' = (registered \/ ok)
          /\ StartTask(started)
          /\ watch' = IF noted THEN "done" ELSE "polling"
          /\ missed' = (missed \/ (noted /\ ~started))
    BY <1>10, Zenon DEF WatchFires
  <2>2. /\ (ok /\ started /\ noted) \in BOOLEAN /\ registered' \in BOOLEAN
        /\ missed' \in BOOLEAN
    BY <2>1
  <2>3. left' \in Bounds
    BY <1>1, <2>1, <2>2, WorksType
  <2>4. /\ launcher' = launcher \/ (launcher' = "list" /\ launcher = "off")
        /\ todo' = todo /\ got' = got
    BY <2>1 DEF StartTask, Starts, serviceVars
  <2>5. /\ UNCHANGED <<pageVars, serverVars, queueVars, beat, runVars, user, recent, trigger, died>>
        /\ watch' \in {"off", "polling", "done"}
    BY <1>10, <2>1 DEF WatchFires
  <2>6. QED
    BY <1>1, <1>3, <2>2, <2>3, <2>4, <2>5, ElsewhereStep DEF serverVars
<1>11. CASE Beats
  BY <1>1, <1>3, <1>11, ElsewhereStep DEF Beats, serverVars, sessionVars
<1>12. QED
  BY <1>2, <1>4, <1>5, <1>6, <1>7, <1>8, <1>9, <1>10, <1>11

-----------------------------------------------------------------------------
\* Steps of the page, and answers the server gives without having served: they
\* tell a click that its job is refused only while it has none.
LEMMA PageStep ==
  ASSUME IInv, UNCHANGED <<queueVars, serviceVars, runVars>>,
         serving' \in {serving, Idle}, hits' \in 0..hits,
         page' \in [Clicks -> {"no", "waiting", "mirrored", "refused", "timeout"}],
         backlog' \subseteq Clicks,
         \A c \in Clicks :
           \/ page'[c] = page[c] \/ page'[c] \in {"waiting", "timeout"}
           \/ page'[c] = "refused" /\ c \in backlog,
         \A c \in Clicks : page'[c] = "no" => page[c] = "no",
         \A c \in backlog' : /\ c \in backlog \/ page[c] = "no"
                             /\ page'[c] \in {"waiting", "timeout"},
         beat' \in BOOLEAN /\ user' \in BOOLEAN /\ recent' \in BOOLEAN,
         registered' \in BOOLEAN /\ trigger' \in BOOLEAN /\ died' \in BOOLEAN /\ missed' \in BOOLEAN,
         watch' \in {"off", "polling", "done"}, left' \in Bounds
  PROVE  IInv'
<1>1. /\ created' = created /\ owner' = owner /\ file' = file /\ todo' = todo /\ got' = got
      /\ launcher' = launcher /\ log' = log /\ opened' = opened /\ kept' = kept
  BY DEF queueVars, serviceVars, runVars
<1>2. /\ Idle.stage = "idle" /\ Idle.job = 0
      /\ Idle \in [who : Clicks \cup {Probe, NoClick}, job : 0..MaxJobs,
                   stage : {"idle", "write", "close", "answer", "refuse", "look"}]
  BY LauncherAssumption DEF Idle
<1>3. hits' \in 0..MaxHits /\ (hits < MaxHits => hits' < MaxHits)
  BY LauncherAssumption DEF IInv, TypeOK
<1>4. TypeOK'
  BY <1>1, <1>2, <1>3 DEF IInv, TypeOK
<1>5. \A j \in Jobs : Opened(j)' = Opened(j)
  BY <1>1 DEF Opened
<1>6. 1..created \subseteq Jobs /\ (created > 0 => created \in Jobs)
  BY LauncherAssumption DEF IInv, TypeOK, Jobs
<1>7. \A j \in Jobs : owner[j] \in Clicks => (page'[owner[j]] = "refused" => page[owner[j]] = "refused")
  BY DEF IInv, OwnersOK
<1>8. LoggedBeforeGone'
  BY <1>1 DEF IInv, LoggedBeforeGone
<1>9. MirroredIsQueued'
  <2>1. \A c \in Clicks : page'[c] = "mirrored" => page[c] = "mirrored"
    OBVIOUS
  <2>2. QED
    BY <1>1, <2>1 DEF IInv, MirroredIsQueued
<1>10. RefusedStaysShut'
  BY <1>1, <1>5, <1>6, <1>7 DEF IInv, RefusedStaysShut
<1>11. ServingOK'
  <2>1. CASE serving' = Idle
    BY <1>2, <2>1 DEF ServingOK
  <2>2. CASE serving' = serving
    <3>1. serving.stage # "idle" =>
            /\ serving.job = created /\ created > 0 /\ owner[created] = serving.who
            /\ serving.who \in Clicks => page'[serving.who] # "refused"
      BY <1>6, <1>7 DEF IInv, ServingOK
    <3>2. QED
      BY <1>1, <1>3, <2>2, <3>1 DEF IInv, ServingOK
  <2>3. QED
    BY <2>1, <2>2
<1>12. OwnersOK'
  BY <1>1 DEF IInv, OwnersOK
<1>13. \A j \in Jobs : (Handling(j)' <=> Handling(j)) /\ (Unwritten(j)' => Unwritten(j))
  BY <1>1, <1>2, <1>7 DEF Handling, Unwritten
<1>14. UnwrittenOK'
  BY <1>1, <1>5, <1>13 DEF IInv, UnwrittenOK
<1>15. TodoOK'
  BY <1>1, <1>13 DEF IInv, TodoOK
<1>16. OpenedOK'
  BY <1>1, <1>5 DEF IInv, OpenedOK
<1>17. QED
  BY <1>4, <1>8, <1>9, <1>10, <1>11, <1>12, <1>14, <1>15, <1>16 DEF IInv

\* A click that waits is told something, the others nothing.
LEMMA ToldEffect ==
  ASSUME TypeOK, NEW c \in Clicks, NEW toast \in {"mirrored", "refused", "timeout"}
  PROVE  /\ Told(c, toast) \in [Clicks -> {"no", "waiting", "mirrored", "refused", "timeout"}]
         /\ \A d \in Clicks : Told(c, toast)[d] =
              IF d = c /\ page[c] = "waiting" THEN toast ELSE page[d]
  BY DEF TypeOK, Told

LEMMA ClickStep ==
  ASSUME IInv, NEW c \in Clicks, Click(c) \/ TimesOut(c) \/ Drop(c)
  PROVE  IInv'
<1>1. /\ TypeOK /\ page \in [Clicks -> {"no", "waiting", "mirrored", "refused", "timeout"}]
      /\ hits \in 0..MaxHits /\ hits \in 0..hits /\ backlog \subseteq Clicks
      /\ \A d \in backlog : page[d] \in {"waiting", "timeout"}
  BY LauncherAssumption DEF IInv, TypeOK, OwnersOK
<1>2. UNCHANGED <<serverVars, queueVars, serviceVars, beat, runVars, sessionVars>>
  BY DEF Click, TimesOut, Drop
<1>3. left' \in Bounds
  BY <1>1, SpendType DEF Click, TimesOut, Drop, TypeOK
<1>4. CASE Click(c)
  <2>1. page[c] = "no" /\ page' = [page EXCEPT ![c] = "waiting"] /\ backlog' = backlog \cup {c}
    BY <1>4 DEF Click
  <2>2. page' \in [Clicks -> {"no", "waiting", "mirrored", "refused", "timeout"}]
    BY <1>1, <2>1
  <2>3. \A d \in Clicks : page'[d] = page[d] \/ page'[d] \in {"waiting", "timeout"}
    BY <1>1, <2>1
  <2>4. \A d \in Clicks : page'[d] = "no" => page[d] = "no"
    BY <1>1, <2>1
  <2>5. \A d \in backlog' : (d \in backlog \/ page[d] = "no") /\ page'[d] \in {"waiting", "timeout"}
    BY <1>1, <2>1
  <2>6. QED
    BY <1>1, <1>2, <1>3, <2>1, <2>2, <2>3, <2>4, <2>5, PageStep
       DEF serverVars, sessionVars, TypeOK
<1>5. CASE TimesOut(c)
  <2>1. /\ page' \in [Clicks -> {"no", "waiting", "mirrored", "refused", "timeout"}]
        /\ \A d \in Clicks : page'[d] = IF d = c /\ page[c] = "waiting" THEN "timeout" ELSE page[d]
        /\ backlog' = backlog
    BY <1>1, <1>5, ToldEffect DEF TimesOut
  <2>2. /\ \A d \in Clicks : page'[d] = page[d] \/ page'[d] \in {"waiting", "timeout"}
        /\ \A d \in Clicks : page'[d] = "no" => page[d] = "no"
        /\ \A d \in backlog' : d \in backlog /\ page'[d] \in {"waiting", "timeout"}
    BY <1>1, <2>1
  <2>3. QED
    BY <1>1, <1>2, <1>3, <2>1, <2>2, PageStep DEF serverVars, sessionVars, TypeOK
<1>6. CASE Drop(c)
  <2>1. page' = page /\ backlog' = backlog \ {c}
    BY <1>6 DEF Drop
  <2>2. QED
    BY <1>1, <1>2, <1>3, <2>1, PageStep DEF serverVars, sessionVars, TypeOK
<1>7. QED
  BY <1>4, <1>5, <1>6

LEMMA ServerRestartsStep ==
  ASSUME IInv, ServerRestarts
  PROVE  IInv'
<1>1. /\ TypeOK /\ page \in [Clicks -> {"no", "waiting", "mirrored", "refused", "timeout"}]
      /\ hits \in 0..MaxHits
  BY DEF IInv, TypeOK
<1>2. /\ serving' = Idle /\ hits' = 0 /\ watch' = "off" /\ backlog' = {}
      /\ page' = [c \in Clicks |-> Told(c, "timeout")[c]]
      /\ UNCHANGED <<queueVars, serviceVars, beat, runVars, user, recent, registered, trigger, died, missed>>
  BY DEF ServerRestarts
<1>3. \A c \in Clicks : page'[c] = IF page[c] = "waiting" THEN "timeout" ELSE page[c]
  BY <1>1, <1>2, ToldEffect
<1>4. page' \in [Clicks -> {"no", "waiting", "mirrored", "refused", "timeout"}]
  BY <1>1, <1>2, <1>3
<1>5. 0 \in 0..hits
  BY <1>1, LauncherAssumption
<1>6. left' \in Bounds
  BY <1>1, SpendType DEF ServerRestarts
<1>7. QED
  BY <1>1, <1>2, <1>3, <1>4, <1>5, <1>6, PageStep DEF TypeOK

-----------------------------------------------------------------------------
\* The first element of a sequence and the rest.
LEMMA HeadAndTail ==
  ASSUME NEW S, NEW q \in Seq(S), q # <<>>
  PROVE  /\ Head(q) \in S /\ 1 \in 1..Len(q) /\ Head(q) = q[1] /\ Len(q) \in Nat
         /\ Tail(q) \in Seq(S) /\ Len(Tail(q)) = Len(q) - 1
         /\ \A n \in 1..Len(q)-1 : Tail(q)[n] = q[n + 1]
  OBVIOUS

\* A job has been opened finitely often.
LEMMA OpenedFinite ==
  ASSUME opened \in Seq(Jobs), NEW j
  PROVE  IsFiniteSet(Opened(j)) /\ Cardinality(Opened(j)) \in Nat
<1>1. IsFiniteSet(1..Len(opened))
  BY FS_Interval
<1>2. Opened(j) \in SUBSET (1..Len(opened))
  BY DEF Opened
<1>3. QED
  BY <1>1, <1>2, FS_Subset, FS_CardinalityType

\* A new job is the newest, belongs to a click that had none, and is empty.
LEMMA CreateStep ==
  ASSUME IInv, NEW who \in Clicks \cup {Probe}, serving = Idle, CreateFile(who),
         who \in Clicks => who \in backlog /\ hits < MaxHits,
         backlog' = backlog \ {who},
         UNCHANGED <<page, hits, serviceVars, beat, runVars, user, recent, registered, trigger, died, missed>>,
         watch' \in {"off", "polling", "done"}, left' \in Bounds
  PROVE  IInv'
<1> DEFINE new == created + 1
<1> USE LauncherAssumption
<1>1. /\ TypeOK /\ created \in 0..MaxJobs /\ created < MaxJobs
      /\ owner \in [Jobs -> Clicks \cup {Probe, NoClick}]
      /\ file \in [Jobs -> {"none", "empty", "whole"}]
      /\ log \in [Jobs -> SUBSET {"ok", "err", "refused"}] /\ kept \in [Jobs -> Nat]
      /\ \A j \in Jobs : owner[j] = NoClick <=> j > created
      /\ todo \in Seq(Jobs) /\ opened \in Seq(Jobs)
  BY DEF IInv, TypeOK, CreateFile
<1>2. /\ new \in Jobs /\ new > created /\ 1..created \subseteq Jobs /\ 1..new \subseteq Jobs
      /\ \A j \in Jobs : j \in 1..new => j = new \/ j \in 1..created
  BY <1>1 DEF Jobs
<1>3. /\ created' = new /\ owner' = [owner EXCEPT ![new] = who]
      /\ file' = [file EXCEPT ![new] = "empty"]
      /\ serving' = [who |-> who, job |-> new, stage |-> "write"]
      /\ page' = page /\ hits' = hits /\ launcher' = launcher /\ todo' = todo /\ got' = got
      /\ log' = log /\ opened' = opened /\ kept' = kept
  BY DEF CreateFile, serviceVars, runVars
<1> HIDE DEF new
<1>4. /\ owner'[new] = who /\ file'[new] = "empty"
      /\ \A j \in Jobs \ {new} : owner'[j] = owner[j] /\ file'[j] = file[j]
      /\ owner' \in [Jobs -> Clicks \cup {Probe, NoClick}]
      /\ file' \in [Jobs -> {"none", "empty", "whole"}]
  BY <1>1, <1>2, <1>3
<1>5. TypeOK'
  <2>1. created' \in 0..MaxJobs
    BY <1>1, <1>3 DEF new
  <2>2. \A j \in Jobs : owner'[j] = NoClick <=> j > created'
    BY <1>1, <1>2, <1>3, <1>4 DEF new, Jobs
  <2>3. serving' \in [who : Clicks \cup {Probe, NoClick}, job : 0..MaxJobs,
                      stage : {"idle", "write", "close", "answer", "refuse", "look"}]
    BY <1>3, <2>1
  <2>4. QED
    BY <1>1, <1>3, <1>4, <2>1, <2>2, <2>3 DEF TypeOK, serviceVars, runVars
<1>6. \A j \in Jobs : Opened(j)' = Opened(j)
  BY <1>3 DEF Opened
<1>7. Opened(new) = {} /\ (\A n \in 1..Len(opened) : opened[n] < new)
      /\ (\A n \in 1..Len(todo) : todo[n] < new)
  <2>1. \A n \in 1..Len(opened) : opened[n] <= created
    BY DEF IInv, OpenedOK
  <2>2. \A n \in 1..Len(todo) : todo[n] <= created
    BY DEF IInv, TodoOK
  <2>3. \A n \in 1..Len(opened) : opened[n] < new
    BY <1>1, <1>2, <2>1 DEF Jobs
  <2>4. \A n \in 1..Len(todo) : todo[n] < new
    BY <1>1, <1>2, <2>2 DEF Jobs
  <2>5. Opened(new) = {}
    BY <1>2, <2>3 DEF Opened, Jobs
  <2>6. QED
    BY <2>3, <2>4, <2>5
<1>8. \A j \in Jobs : (Handling(j)' <=> Handling(j)) /\ ~Handling(new)
  <2>1. launcher \in {"run", "remove"} => todo # <<>>
    BY <1>1 DEF TypeOK
  <2>2. launcher \in {"run", "remove"} => Head(todo) < new
    BY <1>1, <1>7, <2>1, HeadAndTail
  <2>3. QED
    BY <1>2, <1>3, <2>2 DEF Handling, Jobs
<1>9. LoggedBeforeGone'
  BY <1>2, <1>3, <1>4 DEF IInv, LoggedBeforeGone
<1>10. MirroredIsQueued'
  BY <1>2, <1>3, <1>4, <1>1 DEF IInv, MirroredIsQueued, Jobs
<1>11. who \in Clicks => page[who] # "refused" /\ page[who] # "no"
                         /\ \A j \in Jobs : owner[j] # who
  BY DEF IInv, OwnersOK
<1>12. RefusedStaysShut'
  <2>1. SUFFICES ASSUME NEW j \in 1..new, owner'[j] \in Clicks
                 PROVE  /\ page[owner'[j]] = "refused" => Opened(j) = {}
                        /\ "ok" \in log[j] => Opened(j) # {}
    BY <1>2, <1>3, <1>6 DEF RefusedStaysShut
  <2>2. CASE j # new
    BY <1>2, <1>4, <2>1, <2>2 DEF IInv, RefusedStaysShut
  <2>3. CASE j = new
    <3>1. log[new] = {}
      BY <1>1, <1>2 DEF IInv, TodoOK, Jobs
    <3>2. QED
      BY <1>7, <2>3, <3>1
  <2>4. QED
    BY <2>2, <2>3
<1>13. ServingOK'
  BY <1>3, <1>4, <1>11, <1>1, <1>2 DEF ServingOK, new
<1>14. OwnersOK'
  <2>1. \A c \in backlog' : page'[c] \in {"waiting", "timeout"}
    BY <1>3 DEF IInv, OwnersOK
  <2>2. \A c \in Clicks : c \in backlog' \/ page'[c] = "no" => c # who /\ \A j \in Jobs : owner[j] # c
    BY <1>3, <1>11 DEF IInv, OwnersOK
  <2>3. \A c \in Clicks : c \in backlog' \/ page'[c] = "no" => \A j \in Jobs : owner'[j] # c
    BY <1>4, <2>2
  <2>4. \A i, j \in Jobs : owner'[i] = owner'[j] /\ owner'[i] \in Clicks => i = j
    BY <1>4, <1>11 DEF IInv, OwnersOK
  <2>5. QED
    BY <2>1, <2>3, <2>4 DEF OwnersOK
<1>15. UnwrittenOK'
  <2>1. \A j \in Jobs \ {new} : Unwritten(j)' => Unwritten(j)
    BY <1>3, <1>4 DEF Unwritten
  <2>2. QED
    BY <1>2, <1>3, <1>4, <1>6, <1>7, <1>8, <2>1 DEF IInv, UnwrittenOK
<1>16. TodoOK'
  <2>1. \A n \in 1..Len(todo) : todo[n] <= new
    BY <1>1, <1>2, <1>7 DEF Jobs
  <2>2. \A j \in Jobs : file'[j] # "none" =>
          (\E n \in 1..Len(todo) : todo[n] = j) \/ (\A n \in 1..Len(todo) : todo[n] < j)
    BY <1>4, <1>7 DEF IInv, TodoOK
  <2>3. \A j \in Jobs : Handling(j)' =>
          /\ got' = "job" /\ owner'[j] # Probe => file'[j] # "none"
          /\ launcher' = "remove" => log'[j] # {}
    BY <1>3, <1>4, <1>8 DEF IInv, TodoOK
  <2>4. \A j \in Jobs : log[j] # {} => j <= new
    <3>1. \A j \in Jobs : log[j] # {} => j <= created
      BY DEF IInv, TodoOK
    <3>2. \A j \in Jobs : j <= created => j <= new
      BY <1>1, <1>2 DEF Jobs
    <3>3. QED
      BY <3>1, <3>2
  <2>5. \A j \in Jobs : file'[j] # "none" => j <= new
    <3>1. \A j \in Jobs : file[j] # "none" => j <= created
      BY DEF IInv, TodoOK
    <3>2. \A j \in Jobs : j <= created => j <= new
      BY <1>1, <1>2 DEF Jobs
    <3>3. new <= new
      BY <1>2 DEF Jobs
    <3>4. QED
      BY <1>4, <3>1, <3>2, <3>3
  <2>6. QED
    BY <1>3, <2>1, <2>2, <2>3, <2>4, <2>5 DEF IInv, TodoOK
<1>17. OpenedOK'
  <2>1. \A n \in 1..Len(opened) : opened[n] <= new
    BY <1>1, <1>2, <1>7 DEF Jobs
  <2>2. \A n \in 1..Len(opened), j \in Jobs : file'[j] # "none" => opened[n] <= j
    BY <1>4, <2>1 DEF IInv, OpenedOK
  <2>3. \A j \in Jobs \ {new} :
          Cardinality(Opened(j)) <=
            kept[j] + (IF file'[j] = "none" \/ (launcher = "remove" /\ got = "job" /\ Head(todo) = j)
                       THEN 1 ELSE 0)
    BY <1>4 DEF IInv, OpenedOK
  <2>4. Cardinality(Opened(new)) = 0 /\ kept[new] \in Nat
    BY <1>1, <1>2, <1>7, FS_EmptySet
  <2>5. \A j \in Jobs :
          Cardinality(Opened(j)) <=
            kept[j] + (IF file'[j] = "none" \/ (launcher = "remove" /\ got = "job" /\ Head(todo) = j)
                       THEN 1 ELSE 0)
    BY <2>3, <2>4
  <2>6. QED
    BY <1>3, <1>6, <2>1, <2>2, <2>5 DEF IInv, OpenedOK
<1>18. QED
  BY <1>5, <1>9, <1>10, <1>12, <1>13, <1>14, <1>15, <1>16, <1>17 DEF IInv

LEMMA QueueRouteStep ==
  ASSUME IInv, NEW c \in Clicks, QueueRoute(c)
  PROVE  IInv'
<1>1. /\ TypeOK /\ page \in [Clicks -> {"no", "waiting", "mirrored", "refused", "timeout"}]
      /\ hits \in 0..MaxHits /\ hits \in 0..hits /\ backlog \subseteq Clicks
      /\ \A d \in backlog : page[d] \in {"waiting", "timeout"}
  BY LauncherAssumption DEF IInv, TypeOK, OwnersOK
<1>2. /\ serving = Idle /\ c \in backlog /\ backlog' = backlog \ {c}
      /\ UNCHANGED <<hits, serviceVars, beat, runVars, sessionVars>>
  BY DEF QueueRoute
<1>3. left' \in Bounds
  BY <1>1, SpendType DEF QueueRoute, TypeOK
<1>4. CASE page' = Told(c, "refused") /\ UNCHANGED <<serving, queueVars>>
  <2>1. /\ page' \in [Clicks -> {"no", "waiting", "mirrored", "refused", "timeout"}]
        /\ \A d \in Clicks : page'[d] = IF d = c /\ page[c] = "waiting" THEN "refused" ELSE page[d]
    BY <1>1, <1>4, ToldEffect
  <2>2. /\ \A d \in Clicks : page'[d] = page[d] \/ (page'[d] = "refused" /\ d \in backlog)
        /\ \A d \in Clicks : page'[d] = "no" => page[d] = "no"
        /\ \A d \in backlog' : d \in backlog /\ page'[d] \in {"waiting", "timeout"}
    BY <1>1, <1>2, <2>1
  <2>3. QED
    BY <1>1, <1>2, <1>3, <1>4, <2>1, <2>2, PageStep DEF sessionVars, TypeOK
<1>5. CASE ~Full(hits) /\ CreateFile(c) /\ UNCHANGED page
  <2>1. hits < MaxHits
    BY <1>1, <1>5, LauncherAssumption DEF Full
  <2>2. QED
    BY <1>1, <1>2, <1>3, <1>5, <2>1, CreateStep DEF sessionVars, TypeOK
<1>6. QED
  BY <1>4, <1>5 DEF QueueRoute

LEMMA SelfTestStep ==
  ASSUME IInv, SelfTest
  PROVE  IInv'
<1>1. /\ TypeOK /\ hits \in 0..MaxHits /\ hits <= hits /\ backlog \subseteq Clicks
      /\ watch \in {"off", "polling", "done"}
  BY LauncherAssumption DEF IInv, TypeOK
<1>2. /\ serving = Idle
      /\ UNCHANGED <<pageVars, hits, serviceVars, beat, runVars, user, recent, registered, trigger,
                     died, missed>>
      /\ watch' \in {"off", "polling", "done"}
  BY <1>1 DEF SelfTest, StartWatch
<1>3. left' \in Bounds
  BY <1>1, SpendType DEF SelfTest
<1>4. CASE CreateFile(Probe)
  <2>1. Probe \notin Clicks /\ backlog' = backlog \ {Probe} /\ page' = page
    BY <1>1, <1>2, LauncherAssumption DEF pageVars
  <2>2. QED
    BY <1>1, <1>2, <1>3, <1>4, <2>1, CreateStep
<1>5. CASE UNCHANGED <<serving, queueVars>>
  BY <1>1, <1>2, <1>3, <1>5, ElsewhereStep DEF TypeOK, serviceVars
<1>6. QED
  BY <1>4, <1>5 DEF SelfTest

-----------------------------------------------------------------------------
\* The server goes on with the job it serves.
LEMMA ServeStep ==
  ASSUME IInv, UNCHANGED <<pageVars, created, owner, serviceVars, beat, runVars, sessionVars>>,
         file' \in [Jobs -> {"none", "empty", "whole"}],
         serving' \in [who : Clicks \cup {Probe, NoClick}, job : 0..MaxJobs,
                       stage : {"idle", "write", "close", "answer", "refuse", "look"}],
         hits' \in 0..MaxHits, left' \in Bounds, ServingOK',
         \A j \in Jobs : file'[j] = file[j] \/ (file[j] = "empty" /\ file'[j] = "whole"),
         \A j \in Jobs : Unwritten(j)' => Unwritten(j) /\ file'[j] = file[j]
  PROVE  IInv'
<1>1. /\ page' = page /\ backlog' = backlog /\ launcher' = launcher /\ todo' = todo /\ got' = got
      /\ log' = log /\ opened' = opened /\ kept' = kept /\ created' = created /\ owner' = owner
  BY DEF pageVars, serviceVars, runVars
<1>2. TypeOK'
  BY <1>1 DEF IInv, TypeOK, sessionVars
<1>3. \A j \in Jobs : Opened(j)' = Opened(j)
  BY <1>1 DEF Opened
<1>4. 1..created \subseteq Jobs
  BY LauncherAssumption DEF IInv, TypeOK, Jobs
<1>5. LoggedBeforeGone'
  BY <1>1, <1>4 DEF IInv, LoggedBeforeGone
<1>6. MirroredIsQueued'
  BY <1>1, <1>4 DEF IInv, MirroredIsQueued
<1>7. RefusedStaysShut'
  BY <1>1, <1>3, <1>4 DEF IInv, RefusedStaysShut
<1>8. OwnersOK'
  BY <1>1 DEF IInv, OwnersOK
<1>9. \A j \in Jobs : Handling(j)' <=> Handling(j)
  BY <1>1 DEF Handling
<1>10. UnwrittenOK'
  BY <1>1, <1>3, <1>9 DEF IInv, UnwrittenOK
<1>11. TodoOK'
  BY <1>1, <1>9 DEF IInv, TodoOK
<1>12. OpenedOK'
  BY <1>1, <1>3 DEF IInv, OpenedOK
<1>13. QED
  BY <1>2, <1>5, <1>6, <1>7, <1>8, <1>10, <1>11, <1>12 DEF IInv

LEMMA WritesStep ==
  ASSUME IInv, Writes
  PROVE  IInv'
<1> DEFINE job == serving.job
           Stages == {"idle", "write", "close", "answer", "refuse", "look"}
           Servings == [who : Clicks \cup {Probe, NoClick}, job : 0..MaxJobs, stage : Stages]
<1>1. /\ TypeOK /\ serving \in Servings /\ hits \in 0..MaxHits
      /\ file \in [Jobs -> {"none", "empty", "whole"}] /\ created \in 0..MaxJobs
  BY DEF IInv, TypeOK
<1>2. /\ serving.stage = "write" /\ job = created /\ job \in Jobs /\ owner[job] = serving.who
      /\ file[job] # "none" /\ Unwritten(job)
      /\ serving.who # Probe => hits < MaxHits
      /\ serving.who \in Clicks => page[serving.who] # "refused"
  BY <1>1 DEF Writes, IInv, ServingOK, Unwritten, Jobs
<1>3. file[job] = "empty"
  BY <1>1, <1>2 DEF IInv, UnwrittenOK
<1>4. PICK ok \in BOOLEAN :
        /\ Works(ok)
        /\ file' = IF ok THEN [file EXCEPT ![job] = IF @ = "empty" THEN "whole" ELSE @] ELSE file
        /\ serving' = [serving EXCEPT !.stage = IF ok THEN "close" ELSE "refuse"]
  BY DEF Writes
<1>5. UNCHANGED <<pageVars, hits, created, owner, serviceVars, beat, runVars, sessionVars>>
  BY DEF Writes
<1>6. /\ serving' \in Servings /\ serving'.who = serving.who /\ serving'.job = job
      /\ serving'.stage = IF ok THEN "close" ELSE "refuse"
  BY <1>1, <1>4
<1>7. /\ file' \in [Jobs -> {"none", "empty", "whole"}]
      /\ file'[job] = IF ok THEN "whole" ELSE "empty"
      /\ \A j \in Jobs \ {job} : file'[j] = file[j]
  BY <1>1, <1>2, <1>3, <1>4
<1>8. left' \in Bounds
  BY <1>1, <1>4, WorksType
<1> HIDE DEF job
<1>9. ServingOK'
  <2>1. page' = page /\ owner' = owner /\ created' = created /\ hits' = hits
    BY <1>5 DEF pageVars
  <2>2. created > 0
    BY <1>2 DEF Jobs
  <2>3. QED
    BY <1>2, <1>6, <1>7, <2>1, <2>2 DEF ServingOK
<1>10. \A j \in Jobs : Unwritten(j)' => Unwritten(j) /\ file'[j] = file[j]
  <2>1. page' = page /\ owner' = owner
    BY <1>5 DEF pageVars
  <2>2. CASE ok
    BY <1>2, <1>6, <1>7, <2>1, <2>2 DEF Unwritten
  <2>3. CASE ~ok
    BY <1>2, <1>3, <1>6, <1>7, <2>1, <2>3 DEF Unwritten, job
  <2>4. QED
    BY <2>2, <2>3
<1>11. QED
  BY <1>1, <1>3, <1>5, <1>6, <1>7, <1>8, <1>9, <1>10, ServeStep

LEMMA ClosesStep ==
  ASSUME IInv, Closes
  PROVE  IInv'
<1> DEFINE Stages == {"idle", "write", "close", "answer", "refuse", "look"}
           Servings == [who : Clicks \cup {Probe, NoClick}, job : 0..MaxJobs, stage : Stages]
<1>1. /\ TypeOK /\ serving \in Servings /\ hits \in 0..MaxHits /\ left \in Bounds
      /\ file \in [Jobs -> {"none", "empty", "whole"}]
  BY DEF IInv, TypeOK
<1>2. /\ serving.stage = "close"
      /\ serving' = [serving EXCEPT !.stage = IF serving.who = Probe THEN "look" ELSE "answer"]
      /\ hits' = IF serving.who = Probe THEN hits ELSE hits + 1
      /\ UNCHANGED <<pageVars, queueVars, serviceVars, beat, runVars, sessionVars, left>>
  BY DEF Closes
<1>3. /\ serving' \in Servings /\ serving'.who = serving.who /\ serving'.job = serving.job
      /\ serving'.stage = IF serving.who = Probe THEN "look" ELSE "answer"
  BY <1>1, <1>2
<1>4. hits' \in 0..MaxHits
  BY <1>1, <1>2, LauncherAssumption DEF IInv, ServingOK
<1>5. page' = page /\ owner' = owner /\ created' = created /\ file' = file /\ log' = log
  BY <1>2 DEF pageVars, queueVars, runVars
<1>6. ServingOK'
  BY <1>2, <1>3, <1>5 DEF IInv, ServingOK
<1>7. \A j \in Jobs : Unwritten(j)' => Unwritten(j)
  BY <1>3, <1>5 DEF Unwritten
<1>8. QED
  BY <1>1, <1>2, <1>3, <1>4, <1>5, <1>6, <1>7, ServeStep

\* The answer is about the only job of the click: refused, it stays unwritten.
LEMMA AnswersStep ==
  ASSUME IInv, Answers
  PROVE  IInv'
<1> DEFINE who == serving.who
           toast == Answer(serving.stage)
<1>1. /\ TypeOK /\ page \in [Clicks -> {"no", "waiting", "mirrored", "refused", "timeout"}]
      /\ who \in Clicks \cup {Probe, NoClick} /\ created \in 0..MaxJobs
  BY DEF IInv, TypeOK
<1>2. /\ serving.stage \in {"answer", "refuse"} /\ serving' = Idle
      /\ page' = IF who = Probe THEN page ELSE Told(who, toast)
      /\ UNCHANGED <<backlog, hits, queueVars, serviceVars, beat, runVars, sessionVars, left>>
  BY DEF Answers
<1>3. /\ serving.job = created /\ created \in Jobs /\ created \in 1..created /\ owner[created] = who
      /\ serving.stage = "answer" => file[created] = "whole" \/ log[created] # {}
      /\ serving.stage = "refuse" => Unwritten(created)
  BY <1>1, <1>2 DEF IInv, ServingOK, Jobs, Unwritten
<1>4. who # NoClick
  BY <1>1, <1>3, LauncherAssumption DEF TypeOK, Jobs
<1>5. toast = IF serving.stage = "answer" THEN "mirrored" ELSE "refused"
  BY DEF Answer
<1> HIDE DEF who, toast
<1>6. /\ page' \in [Clicks -> {"no", "waiting", "mirrored", "refused", "timeout"}]
      /\ \A c \in Clicks : page'[c] = IF c = who /\ page[c] = "waiting" THEN toast ELSE page[c]
  <2>1. CASE who = Probe
    BY <1>1, <1>2, <2>1, LauncherAssumption
  <2>2. CASE who \in Clicks
    <3>1. who # Probe /\ toast \in {"mirrored", "refused", "timeout"}
      BY <1>5, <2>2, LauncherAssumption
    <3>2. QED
      BY <1>1, <1>2, <2>2, <3>1, ToldEffect
  <2>3. QED
    BY <1>1, <1>4, <2>1, <2>2
<1>7. /\ created' = created /\ owner' = owner /\ file' = file /\ todo' = todo /\ got' = got
      /\ launcher' = launcher /\ log' = log /\ opened' = opened /\ kept' = kept
      /\ backlog' = backlog /\ hits' = hits
  BY <1>2 DEF queueVars, serviceVars, runVars
<1>8. /\ Idle.stage = "idle" /\ Idle.job = 0
      /\ Idle \in [who : Clicks \cup {Probe, NoClick}, job : 0..MaxJobs,
                   stage : {"idle", "write", "close", "answer", "refuse", "look"}]
  BY LauncherAssumption DEF Idle
<1>9. TypeOK'
  BY <1>1, <1>2, <1>6, <1>7, <1>8 DEF TypeOK, sessionVars
<1>10. \A j \in Jobs : (Opened(j)' = Opened(j)) /\ (Handling(j)' <=> Handling(j))
  BY <1>7 DEF Opened, Handling
<1>11. 1..created \subseteq Jobs
  BY <1>1, LauncherAssumption DEF Jobs
<1>12. \A j \in Jobs : Unwritten(j)' => Unwritten(j)
  <2>1. SUFFICES ASSUME NEW j \in Jobs, owner[j] \in Clicks, page'[owner[j]] = "refused",
                        page[owner[j]] # "refused"
                 PROVE  Unwritten(j)
    BY <1>2, <1>7, <1>8 DEF Unwritten
  <2>2. owner[j] = who /\ serving.stage = "refuse"
    BY <1>2, <1>5, <1>6, <2>1
  <2>3. j = created
    BY <1>3, <2>1, <2>2 DEF IInv, OwnersOK
  <2>4. QED
    BY <1>3, <2>2, <2>3
<1>13. LoggedBeforeGone'
  BY <1>7 DEF IInv, LoggedBeforeGone
<1>14. MirroredIsQueued'
  <2>1. SUFFICES ASSUME NEW c \in Clicks, page'[c] = "mirrored"
                 PROVE  \E j \in 1..created : owner[j] = c /\ (file[j] = "whole" \/ log[j] # {})
    BY <1>7 DEF MirroredIsQueued
  <2>2. CASE page[c] = "mirrored"
    BY <2>2 DEF IInv, MirroredIsQueued
  <2>3. CASE page[c] # "mirrored"
    BY <1>2, <1>3, <1>5, <1>6, <2>1, <2>3
  <2>4. QED
    BY <2>2, <2>3
<1>15. RefusedStaysShut'
  <2>1. SUFFICES ASSUME NEW j \in 1..created, owner[j] \in Clicks
                 PROVE  /\ page'[owner[j]] = "refused" => Opened(j) = {}
                        /\ "ok" \in log[j] => Opened(j) # {}
    BY <1>7, <1>10, <1>11 DEF RefusedStaysShut
  <2>2. page'[owner[j]] = "refused" => Unwritten(j)'
    BY <1>7, <2>1 DEF Unwritten
  <2>3. QED
    BY <1>11, <1>12, <2>1, <2>2 DEF IInv, UnwrittenOK, RefusedStaysShut
<1>16. ServingOK'
  BY <1>2, <1>8 DEF ServingOK
<1>17. OwnersOK'
  <2>1. \A c \in backlog : c # who /\ page'[c] = page[c]
    BY <1>3, <1>6, <1>1 DEF IInv, OwnersOK, TypeOK
  <2>2. \A c \in Clicks : page'[c] = "no" => page[c] = "no"
    BY <1>5, <1>6
  <2>3. QED
    BY <1>1, <1>7, <2>1, <2>2 DEF IInv, OwnersOK
<1>18. UnwrittenOK'
  BY <1>7, <1>10, <1>12 DEF IInv, UnwrittenOK
<1>19. TodoOK'
  BY <1>7, <1>10 DEF IInv, TodoOK
<1>20. OpenedOK'
  BY <1>7, <1>10 DEF IInv, OpenedOK
<1>21. QED
  BY <1>9, <1>13, <1>14, <1>15, <1>16, <1>17, <1>18, <1>19, <1>20 DEF IInv

LEMMA ProbeEndsStep ==
  ASSUME IInv, ProbeEnds
  PROVE  IInv'
<1>1. TypeOK /\ file \in [Jobs -> {"none", "empty", "whole"}] /\ created \in 0..MaxJobs
  BY DEF IInv, TypeOK
<1>2. /\ serving.stage = "look" /\ serving' = Idle /\ file' = [file EXCEPT ![serving.job] = "none"]
      /\ UNCHANGED <<pageVars, hits, created, owner, serviceVars, beat, runVars, sessionVars, left>>
  BY DEF ProbeEnds
<1>3. serving.job = created /\ created \in Jobs /\ owner[created] = Probe
  BY <1>1, <1>2 DEF IInv, ServingOK, Jobs
<1>4. /\ page' = page /\ backlog' = backlog /\ launcher' = launcher /\ todo' = todo /\ got' = got
      /\ log' = log /\ opened' = opened /\ kept' = kept /\ created' = created /\ owner' = owner
      /\ hits' = hits
  BY <1>2 DEF pageVars, serviceVars, runVars
<1>5. /\ Idle.stage = "idle" /\ Idle.job = 0
      /\ Idle \in [who : Clicks \cup {Probe, NoClick}, job : 0..MaxJobs,
                   stage : {"idle", "write", "close", "answer", "refuse", "look"}]
  BY LauncherAssumption DEF Idle
<1>6. /\ file' \in [Jobs -> {"none", "empty", "whole"}] /\ file'[created] = "none"
      /\ \A j \in Jobs \ {created} : file'[j] = file[j]
  BY <1>1, <1>2, <1>3
<1>7. \A j \in Jobs : owner[j] # Probe => file'[j] = file[j]
  BY <1>3, <1>6
<1>8. TypeOK'
  BY <1>1, <1>2, <1>4, <1>5, <1>6 DEF TypeOK, sessionVars
<1>9. \A j \in Jobs : /\ Opened(j)' = Opened(j) /\ (Handling(j)' <=> Handling(j))
                      /\ Unwritten(j)' => Unwritten(j)
  BY <1>2, <1>4, <1>5 DEF Opened, Handling, Unwritten
<1>10. 1..created \subseteq Jobs /\ Probe \notin Clicks
  BY <1>1, LauncherAssumption DEF Jobs
<1>11. LoggedBeforeGone'
  BY <1>4, <1>7, <1>10 DEF IInv, LoggedBeforeGone
<1>12. MirroredIsQueued'
  BY <1>4, <1>7, <1>10 DEF IInv, MirroredIsQueued
<1>13. RefusedStaysShut'
  BY <1>4, <1>9, <1>10 DEF IInv, RefusedStaysShut
<1>14. ServingOK'
  BY <1>2, <1>5 DEF ServingOK
<1>15. OwnersOK'
  BY <1>4 DEF IInv, OwnersOK
<1>16. UnwrittenOK'
  BY <1>4, <1>6, <1>9 DEF IInv, UnwrittenOK
<1>17. TodoOK'
  BY <1>4, <1>6, <1>7, <1>9 DEF IInv, TodoOK
<1>18. OpenedOK'
  <2>1. \A n \in 1..Len(opened), j \in Jobs : file'[j] # "none" => opened[n] <= j
    BY <1>6 DEF IInv, OpenedOK
  <2>2. \A j \in Jobs : kept[j] \in Nat
    BY <1>1 DEF TypeOK
  <2>3. \A j \in Jobs : file[j] = "none" => file'[j] = "none"
    BY <1>6
  <2>4. \A j \in Jobs : Cardinality(Opened(j)) \in Nat
    BY <1>1, OpenedFinite DEF TypeOK
  <2>5. \A j \in Jobs :
          Cardinality(Opened(j)) <=
            kept[j] + (IF file'[j] = "none" \/ (launcher = "remove" /\ got = "job" /\ Head(todo) = j)
                       THEN 1 ELSE 0)
    BY <2>2, <2>3, <2>4 DEF IInv, OpenedOK
  <2>6. QED
    BY <1>4, <1>9, <2>1, <2>5 DEF IInv, OpenedOK
<1>19. QED
  BY <1>8, <1>11, <1>12, <1>13, <1>14, <1>15, <1>16, <1>17, <1>18 DEF IInv

-----------------------------------------------------------------------------
\* The launcher goes on: what the page and the server know stays.
LEMMA LauncherGoesOn ==
  ASSUME IInv, UNCHANGED <<pageVars, serverVars, queueVars, beat, runVars, user, recent, registered>>,
         trigger' \in BOOLEAN, watch' = watch, died' \in BOOLEAN /\ missed' \in BOOLEAN, left' \in Bounds, user' \in BOOLEAN,
         launcher' \in {"off", "list", "read", "run", "remove", "beat"},
         todo' \in Seq(Jobs), got' \in {"none", "job", "nothing"},
         launcher' \in {"read", "run", "remove"} => todo' # <<>>,
         TodoOK',
         \A j \in Jobs : Handling(j)' /\ got' = "job" => ~Unwritten(j),
         \A j \in Jobs : launcher = "remove" /\ got = "job" /\ Head(todo) = j =>
                         launcher' = "remove" /\ got' = "job" /\ Head(todo') = j
  PROVE  IInv'
<1>1. /\ page' = page /\ backlog' = backlog /\ serving' = serving /\ hits' = hits
      /\ created' = created /\ owner' = owner /\ file' = file /\ log' = log /\ opened' = opened
      /\ kept' = kept
  BY DEF pageVars, serverVars, queueVars, runVars
<1>2. TypeOK'
  BY <1>1 DEF IInv, TypeOK
<1>3. \A j \in Jobs : Opened(j)' = Opened(j) /\ (Unwritten(j)' <=> Unwritten(j))
  BY <1>1 DEF Opened, Unwritten
<1>4. 1..created \subseteq Jobs
  BY LauncherAssumption DEF IInv, TypeOK, Jobs
<1>5. LoggedBeforeGone' /\ MirroredIsQueued'
  BY <1>1 DEF IInv, LoggedBeforeGone, MirroredIsQueued
<1>6. RefusedStaysShut'
  BY <1>1, <1>3, <1>4 DEF IInv, RefusedStaysShut
<1>7. ServingOK' /\ OwnersOK'
  BY <1>1 DEF IInv, ServingOK, OwnersOK
<1>8. UnwrittenOK'
  BY <1>1, <1>3 DEF IInv, UnwrittenOK
<1>9. OpenedOK'
  <2>1. \A j \in Jobs : Cardinality(Opened(j)) \in Nat /\ kept[j] \in Nat
    BY OpenedFinite DEF IInv, TypeOK
  <2>2. \A j \in Jobs :
          Cardinality(Opened(j)) <=
            kept[j] + (IF file[j] = "none" \/ (launcher' = "remove" /\ got' = "job" /\ Head(todo') = j)
                       THEN 1 ELSE 0)
    BY <2>1 DEF IInv, OpenedOK
  <2>3. QED
    BY <1>1, <1>3, <2>2 DEF IInv, OpenedOK
<1>10. QED
  BY <1>2, <1>5, <1>6, <1>7, <1>8, <1>9 DEF IInv

LEMMA ListsStep ==
  ASSUME IInv, Lists
  PROVE  IInv'
<1> DEFINE q == InOrder(OnDisk)
<1>1. /\ TypeOK /\ trigger \in BOOLEAN /\ died \in BOOLEAN /\ missed \in BOOLEAN /\ user \in BOOLEAN /\ left \in Bounds
      /\ created \in 0..MaxJobs /\ got \in {"none", "job", "nothing"}
  BY DEF IInv, TypeOK
<1>2. /\ launcher = "list" /\ todo' = q /\ launcher' = IF OnDisk = {} THEN "beat" ELSE "read"
      /\ UNCHANGED <<pageVars, serverVars, queueVars, got, beat, runVars, sessionVars, left>>
  BY DEF Lists
<1>3. OnDisk \subseteq Jobs
  BY DEF OnDisk
<1>4. /\ q \in Seq(Jobs)
      /\ \A n \in 1..Len(q) : q[n] \in OnDisk
      /\ \A m, n \in 1..Len(q) : m < n => q[m] < q[n]
      /\ \A j \in OnDisk : \E n \in 1..Len(q) : q[n] = j
      /\ OnDisk # {} => q # <<>>
  BY <1>3, InOrderSorted
<1> HIDE DEF q
<1>5. \A j \in OnDisk : j <= created
  BY DEF OnDisk, IInv, TodoOK
<1>6. TodoOK'
  <2>1. file' = file /\ created' = created /\ log' = log
    BY <1>2 DEF queueVars, runVars
  <2>2. \A j \in Jobs : file[j] # "none" => \E n \in 1..Len(q) : q[n] = j
    BY <1>4 DEF OnDisk
  <2>3. \A n \in 1..Len(q) : q[n] <= created
    BY <1>4, <1>5
  <2>4. QED
    BY <1>2, <1>4, <2>1, <2>2, <2>3 DEF IInv, TodoOK, Handling
<1>7. QED
  BY <1>1, <1>2, <1>4, <1>6, LauncherGoesOn DEF sessionVars, Handling

LEMMA ReadsStep ==
  ASSUME IInv, Reads
  PROVE  IInv'
<1>1. /\ TypeOK /\ trigger \in BOOLEAN /\ died \in BOOLEAN /\ missed \in BOOLEAN /\ user \in BOOLEAN /\ left \in Bounds
      /\ todo \in Seq(Jobs)
  BY DEF IInv, TypeOK
<1>2. /\ launcher = "read" /\ launcher' = "run"
      /\ got' = IF file[Head(todo)] = "whole" THEN "job" ELSE "nothing"
      /\ UNCHANGED <<pageVars, serverVars, queueVars, todo, beat, runVars, sessionVars, left>>
  BY DEF Reads
<1>3. todo # <<>>
  BY <1>2 DEF IInv, TypeOK
<1>4. file' = file /\ created' = created /\ log' = log /\ owner' = owner
  BY <1>2 DEF queueVars, runVars
<1>5. \A j \in Jobs : Handling(j)' /\ got' = "job" => file[j] = "whole"
  BY <1>2 DEF Handling
<1>6. TodoOK'
  BY <1>2, <1>4, <1>5 DEF IInv, TodoOK
<1>7. \A j \in Jobs : Handling(j)' /\ got' = "job" => ~Unwritten(j)
  BY <1>5 DEF IInv, UnwrittenOK
<1>8. QED
  BY <1>1, <1>2, <1>3, <1>6, <1>7, LauncherGoesOn DEF sessionVars

\* Where jobs stand after one more was opened.
LEMMA OpenedAppend ==
  ASSUME opened \in Seq(Jobs), NEW j \in Jobs, opened' = Append(opened, j)
  PROVE  /\ opened' \in Seq(Jobs)
         /\ \A i \in Jobs : Opened(i)' = IF i = j THEN Opened(i) \cup {Len(opened) + 1} ELSE Opened(i)
         /\ Cardinality(Opened(j)') <= Cardinality(Opened(j)) + 1
         /\ \A n \in 1..Len(opened') : IF n = Len(opened) + 1 THEN opened'[n] = j
                                       ELSE n \in 1..Len(opened) /\ opened'[n] = opened[n]
<1>1. /\ opened' \in Seq(Jobs) /\ Len(opened) \in Nat /\ Len(opened') = Len(opened) + 1
      /\ opened'[Len(opened) + 1] = j /\ \A n \in 1..Len(opened) : opened'[n] = opened[n]
  OBVIOUS
<1>2. \A n \in 1..Len(opened') : n = Len(opened) + 1 \/ n \in 1..Len(opened)
  BY <1>1
<1>3. \A i \in Jobs : Opened(i)' = IF i = j THEN Opened(i) \cup {Len(opened) + 1} ELSE Opened(i)
  BY <1>1, <1>2 DEF Opened
<1>4. Cardinality(Opened(j)') <= Cardinality(Opened(j)) + 1
  <2> DEFINE S == Opened(j)
             x == Len(opened) + 1
  <2>1. IsFiniteSet(S) /\ Cardinality(S) \in Nat
    BY OpenedFinite
  <2>2. Opened(j)' = S \cup {x}
    BY <1>3
  <2> HIDE DEF S, x
  <2>3. Cardinality(S \cup {x}) = IF x \in S THEN Cardinality(S) ELSE Cardinality(S) + 1
    BY <2>1, FS_AddElement
  <2>4. Cardinality(S \cup {x}) <= Cardinality(S) + 1
    BY <2>1, <2>3
  <2>5. QED
    BY <2>2, <2>4 DEF S
<1>5. QED
  BY <1>1, <1>2, <1>3, <1>4

\* A job is opened in its turn, and the log tells what became of it.
LEMMA RunsStep ==
  ASSUME IInv, Runs
  PROVE  IInv'
<1>1. /\ TypeOK /\ todo \in Seq(Jobs) /\ opened \in Seq(Jobs) /\ kept \in [Jobs -> Nat]
      /\ log \in [Jobs -> SUBSET {"ok", "err", "refused"}] /\ left \in Bounds
      /\ created \in 0..MaxJobs /\ owner \in [Jobs -> Clicks \cup {Probe, NoClick}]
      /\ file \in [Jobs -> {"none", "empty", "whole"}]
  BY DEF IInv, TypeOK
<1>2. /\ launcher = "run" /\ launcher' = "remove"
      /\ UNCHANGED <<pageVars, serverVars, queueVars, todo, got, beat, kept, sessionVars>>
  BY DEF Runs
<1>3. todo # <<>>
  BY <1>2 DEF IInv, TypeOK
<1>4. PICK j \in Jobs : j = Head(todo) /\ 1 \in 1..Len(todo) /\ j = todo[1]
  BY <1>1, <1>3, HeadAndTail
<1>5. PICK what \in {"ok", "err", "refused"} :
        /\ log' = [log EXCEPT ![j] = @ \cup {what}]
        /\ \/ opened' = opened /\ (what = "ok" => owner[j] = Probe)
           \/ opened' = Append(opened, j) /\ got = "job" /\ owner[j] # Probe
        /\ left' \in Bounds
  <2>1. CASE got = "nothing" /\ Logs(j, "refused") /\ UNCHANGED <<opened, left>>
    BY <1>1, <2>1 DEF Logs
  <2>2. CASE got = "job" /\ owner[j] = Probe /\ Logs(j, "ok") /\ UNCHANGED <<opened, left>>
    BY <1>1, <2>2 DEF Logs
  <2>3. CASE /\ got = "job" /\ owner[j] # Probe
             /\ \E ok \in BOOLEAN : /\ Works(ok)
                                    /\ opened' = IF ok THEN Append(opened, j) ELSE opened
                                    /\ Logs(j, IF ok THEN "ok" ELSE "err")
    <3>1. PICK ok \in BOOLEAN : /\ Works(ok)
                                /\ opened' = IF ok THEN Append(opened, j) ELSE opened
                                /\ Logs(j, IF ok THEN "ok" ELSE "err")
      BY <2>3
    <3>2. left' \in Bounds
      BY <1>1, <3>1, WorksType
    <3>3. QED
      BY <2>3, <3>1, <3>2 DEF Logs
  <2>4. QED
    BY <1>4, <2>1, <2>2, <2>3 DEF Runs
<1>6. /\ page' = page /\ backlog' = backlog /\ serving' = serving /\ hits' = hits
      /\ created' = created /\ owner' = owner /\ file' = file /\ todo' = todo /\ got' = got
      /\ kept' = kept
  BY <1>2 DEF pageVars, serverVars, queueVars
<1>7. /\ log' \in [Jobs -> SUBSET {"ok", "err", "refused"}] /\ log'[j] # {}
      /\ \A i \in Jobs : log[i] \subseteq log'[i] /\ (i # j => log'[i] = log[i])
  BY <1>1, <1>4, <1>5
<1>8. /\ opened' \in Seq(Jobs)
      /\ \A i \in Jobs : Opened(i) \subseteq Opened(i)' /\ (i # j => Opened(i)' = Opened(i))
      /\ opened' # opened => Opened(j)' # {}
      /\ Cardinality(Opened(j)') <= Cardinality(Opened(j)) + 1
  <2>1. CASE opened' = opened
    <3>1. \A i \in Jobs : Opened(i)' = Opened(i)
      BY <2>1 DEF Opened
    <3>2. Cardinality(Opened(j)) <= Cardinality(Opened(j)) + 1
      BY <1>1, OpenedFinite
    <3>3. QED
      BY <1>1, <1>4, <2>1, <3>1, <3>2
  <2>2. CASE opened' = Append(opened, j)
    BY <1>1, <1>4, <2>2, OpenedAppend, ZenonT(60)
  <2>3. QED
    BY <1>5, <2>1, <2>2
<1>9. TypeOK'
  BY <1>1, <1>2, <1>3, <1>5, <1>6, <1>7, <1>8 DEF TypeOK, sessionVars
<1>10. 1..created \subseteq Jobs
  BY <1>1, LauncherAssumption DEF Jobs
<1>11. LoggedBeforeGone'
  <2>1. \A i \in Jobs : log[i] # {} => log'[i] # {}
    BY <1>7
  <2>2. QED
    BY <1>6, <1>10, <2>1 DEF IInv, LoggedBeforeGone
<1>12. MirroredIsQueued'
  <2>1. \A i \in Jobs : log[i] # {} => log'[i] # {}
    BY <1>7
  <2>2. QED
    BY <1>6, <1>10, <2>1 DEF IInv, MirroredIsQueued
<1>13. \A i \in Jobs : (Handling(i) <=> i = j) /\ (Handling(i)' <=> i = j)
  BY <1>2, <1>4, <1>6 DEF Handling
<1>14. \A i \in Jobs : Unwritten(i)' <=> Unwritten(i)
  BY <1>6 DEF Unwritten
<1>15. UnwrittenOK'
  <2>1. Unwritten(j) => opened' = opened
    BY <1>1, <1>4, <1>5, <1>13 DEF IInv, UnwrittenOK
  <2>2. \A i \in Jobs : Unwritten(i) => Opened(i)' = Opened(i)
    <3>1. opened' = opened => Opened(j)' = Opened(j)
      BY DEF Opened
    <3>2. QED
      BY <1>8, <2>1, <3>1
  <2>3. QED
    BY <1>6, <1>13, <1>14, <2>2 DEF IInv, UnwrittenOK
<1>16. RefusedStaysShut'
  <2>1. SUFFICES ASSUME NEW i \in Jobs, i \in 1..created, owner[i] \in Clicks
                 PROVE  /\ page[owner[i]] = "refused" => Opened(i)' = {}
                        /\ "ok" \in log'[i] => Opened(i)' # {}
    BY <1>6, <1>10 DEF RefusedStaysShut
  <2>2. page[owner[i]] = "refused" => Unwritten(i)'
    BY <1>14, <2>1 DEF Unwritten
  <2>3. page[owner[i]] = "refused" => Opened(i)' = {}
    BY <1>15, <2>2 DEF UnwrittenOK
  <2>4. "ok" \in log'[i] => Opened(i)' # {}
    <3>1. CASE "ok" \in log[i]
      <4>1. Opened(i) # {}
        BY <2>1, <3>1 DEF IInv, RefusedStaysShut
      <4>2. QED
        BY <1>8, <4>1
    <3>2. CASE "ok" \notin log[i] /\ "ok" \in log'[i]
      <4>1. i = j /\ log'[j] = log[j] \cup {what}
        BY <1>1, <1>4, <1>5, <1>7, <3>2
      <4>2. what = "ok"
        BY <3>2, <4>1
      <4>3. opened' = Append(opened, j)
        BY <1>5, <2>1, <4>1, <4>2, LauncherAssumption
      <4>4. QED
        BY <1>1, <1>4, <4>1, <4>3, OpenedAppend, ZenonT(60)
    <3>3. QED
      BY <3>1, <3>2
  <2>5. QED
    BY <2>3, <2>4
<1>17. ServingOK'
  <2>1. \A i \in Jobs : log[i] # {} => log'[i] # {}
    BY <1>7
  <2>2. serving.stage # "idle" => serving.job \in Jobs
    BY <1>1 DEF IInv, ServingOK, Jobs
  <2>3. QED
    BY <1>6, <2>1, <2>2 DEF IInv, ServingOK
<1>18. OwnersOK'
  BY <1>6 DEF IInv, OwnersOK
<1>19. TodoOK'
  <2>1. j <= created
    BY <1>4 DEF IInv, TodoOK
  <2>2. \A i \in Jobs : log'[i] # {} => i <= created
    BY <1>7, <2>1 DEF IInv, TodoOK
  <2>3. \A i \in Jobs : Handling(i)' =>
          /\ got' = "job" /\ owner'[i] # Probe => file'[i] # "none"
          /\ launcher' = "remove" => log'[i] # {}
    BY <1>6, <1>7, <1>13 DEF IInv, TodoOK
  <2>4. QED
    BY <1>6, <2>2, <2>3 DEF IInv, TodoOK
<1>20. OpenedOK'
  <2>1. \A i \in Jobs : Cardinality(Opened(i)) \in Nat /\ kept[i] \in Nat
    BY <1>1, OpenedFinite
  <2>2. \A i \in Jobs : file[i] = "none" => file[i] = "none"
    OBVIOUS
  <2>3. CASE opened' = opened
    <3>1. \A i \in Jobs : Opened(i)' = Opened(i)
      BY <2>3 DEF Opened
    <3>2. \A i \in Jobs :
            Cardinality(Opened(i)) <=
              kept[i] + (IF file[i] = "none" \/ (launcher' = "remove" /\ got = "job" /\ Head(todo) = i)
                         THEN 1 ELSE 0)
      BY <1>2, <2>1 DEF IInv, OpenedOK
    <3>3. QED
      BY <1>6, <2>3, <3>1, <3>2 DEF IInv, OpenedOK
  <2>4. CASE opened' = Append(opened, j) /\ got = "job" /\ owner[j] # Probe
    <3>1. file[j] # "none"
      BY <1>4, <1>13, <2>4 DEF IInv, TodoOK
    <3>2. /\ Len(opened) \in Nat
          /\ \A n \in 1..Len(opened') : IF n = Len(opened) + 1 THEN opened'[n] = j
                                        ELSE n \in 1..Len(opened) /\ opened'[n] = opened[n]
      BY <1>1, <1>4, <2>4, OpenedAppend
    <3>3. \A n \in 1..Len(opened) : opened[n] <= j
      BY <1>4, <3>1 DEF IInv, OpenedOK
    <3>4. j <= created /\ \A i \in Jobs : file[i] # "none" => j <= i
      <4>1. j <= created
        BY <1>4 DEF IInv, TodoOK
      <4>2. SUFFICES ASSUME NEW i \in Jobs, file[i] # "none"
                     PROVE  j <= i
        BY <4>1
      <4>3. (\E n \in 1..Len(todo) : todo[n] = i) \/ (\A n \in 1..Len(todo) : todo[n] < i)
        BY <4>2 DEF IInv, TodoOK
      <4>4. CASE \A n \in 1..Len(todo) : todo[n] < i
        BY <1>4, <4>4 DEF Jobs
      <4>5. CASE \E n \in 1..Len(todo) : todo[n] = i
        <5>1. PICK n \in 1..Len(todo) : todo[n] = i
          BY <4>5
        <5>2. n = 1 \/ 1 < n
          OBVIOUS
        <5>3. 1 < n => todo[1] < todo[n]
          BY <1>4 DEF IInv, TodoOK
        <5>4. QED
          BY <1>4, <5>1, <5>2, <5>3 DEF Jobs
      <4>6. QED
        BY <4>3, <4>4, <4>5
    <3>5. \A m, n \in 1..Len(opened') : m <= n => opened'[m] <= opened'[n]
      <4>1. SUFFICES ASSUME NEW m \in 1..Len(opened'), NEW n \in 1..Len(opened'), m <= n
                     PROVE  opened'[m] <= opened'[n]
        OBVIOUS
      <4>2. CASE n = Len(opened) + 1
        <5>1. opened'[n] = j /\ (opened'[m] = j \/ (m \in 1..Len(opened) /\ opened'[m] = opened[m]))
          BY <3>2, <4>2
        <5>2. QED
          BY <1>4, <3>3, <5>1 DEF Jobs
      <4>3. CASE n # Len(opened) + 1
        <5>1. n \in 1..Len(opened) /\ opened'[n] = opened[n]
          BY <3>2, <4>3
        <5>2. m # Len(opened) + 1
          BY <3>2, <4>1, <5>1
        <5>3. m \in 1..Len(opened) /\ opened'[m] = opened[m]
          BY <3>2, <5>2
        <5>4. QED
          BY <4>1, <5>1, <5>3 DEF IInv, OpenedOK
      <4>4. QED
        BY <4>2, <4>3
    <3>6. \A n \in 1..Len(opened') : opened'[n] <= created
      BY <3>2, <3>4 DEF IInv, OpenedOK
    <3>7. \A n \in 1..Len(opened'), i \in Jobs : file[i] # "none" => opened'[n] <= i
      BY <3>2, <3>4 DEF IInv, OpenedOK
    <3>8. \A i \in Jobs \ {j} :
            Cardinality(Opened(i)') <=
              kept[i] + (IF file[i] = "none" \/ (launcher' = "remove" /\ got = "job" /\ Head(todo) = i)
                         THEN 1 ELSE 0)
      BY <1>2, <1>8, <2>1 DEF IInv, OpenedOK
    <3>9. Cardinality(Opened(j)') <= kept[j] + 1
      <4>1. Cardinality(Opened(j)) <= kept[j]
        BY <1>2, <1>4, <2>1, <3>1 DEF IInv, OpenedOK
      <4>2. Cardinality(Opened(j)') \in Nat
        <5>1. IsFiniteSet(Opened(j)) /\ Opened(j)' = Opened(j) \cup {Len(opened) + 1}
          BY <1>1, <1>4, <2>4, OpenedAppend, OpenedFinite
        <5>2. IsFiniteSet(Opened(j)')
          BY <5>1, FS_AddElement
        <5>3. QED
          BY <5>2, FS_CardinalityType
      <4>3. QED
        BY <1>4, <1>8, <2>1, <4>1, <4>2
    <3>10. \A i \in Jobs :
             Cardinality(Opened(i)') <=
               kept[i] + (IF file[i] = "none" \/ (launcher' = "remove" /\ got = "job" /\ Head(todo) = i)
                          THEN 1 ELSE 0)
      BY <1>2, <1>4, <2>4, <3>8, <3>9
    <3>11. QED
      BY <1>6, <3>5, <3>6, <3>7, <3>10 DEF OpenedOK
  <2>5. QED
    BY <1>5, <2>3, <2>4
<1>21. QED
  BY <1>9, <1>11, <1>12, <1>15, <1>16, <1>17, <1>18, <1>19, <1>20 DEF IInv

\* Only the job the launcher is at leaves the disk, and if it stays, it is the
\* newest: the listing ends with it.
LEMMA RemovesStep ==
  ASSUME IInv, Removes
  PROVE  IInv'
<1>1. /\ TypeOK /\ todo \in Seq(Jobs) /\ opened \in Seq(Jobs) /\ kept \in [Jobs -> Nat]
      /\ created \in 0..MaxJobs /\ file \in [Jobs -> {"none", "empty", "whole"}]
      /\ \A i \in Jobs : kept[i] \in Nat
  BY DEF IInv, TypeOK
<1>2. /\ launcher = "remove" /\ todo' = Tail(todo) /\ got' = "none"
      /\ launcher' = IF Len(todo) = 1 THEN "beat" ELSE "read"
      /\ UNCHANGED <<pageVars, serverVars, created, owner, beat, log, opened, sessionVars, left>>
  BY DEF Removes
<1>3. todo # <<>>
  BY <1>2 DEF IInv, TypeOK
<1>4. PICK j \in Jobs : j = Head(todo) /\ 1 \in 1..Len(todo) /\ j = todo[1]
  BY <1>1, <1>3, HeadAndTail
<1>5. /\ Len(todo) \in Nat /\ todo' \in Seq(Jobs) /\ Len(todo') = Len(todo) - 1
      /\ \A n \in 1..Len(todo') : n + 1 \in 1..Len(todo) /\ todo'[n] = todo[n + 1]
  BY <1>1, <1>2, <1>3, HeadAndTail
<1>6. /\ file' = IF HandleOpen(j) THEN file ELSE [file EXCEPT ![j] = "none"]
      /\ kept' = IF HandleOpen(j) /\ got = "job" THEN [kept EXCEPT ![j] = @ + 1] ELSE kept
  BY <1>4 DEF Removes
<1>7. /\ page' = page /\ backlog' = backlog /\ serving' = serving /\ hits' = hits
      /\ created' = created /\ owner' = owner /\ log' = log /\ opened' = opened
  BY <1>2 DEF pageVars, serverVars
<1>8. /\ file' \in [Jobs -> {"none", "empty", "whole"}]
      /\ \A i \in Jobs \ {j} : file'[i] = file[i]
      /\ file'[j] = IF HandleOpen(j) THEN file[j] ELSE "none"
  BY <1>1, <1>6
<1>9. /\ kept' \in [Jobs -> Nat] /\ \A i \in Jobs \ {j} : kept'[i] = kept[i]
      /\ kept'[j] = IF HandleOpen(j) /\ got = "job" THEN kept[j] + 1 ELSE kept[j]
  BY <1>1, <1>6
<1>10. Handling(j) /\ log[j] # {}
  BY <1>2, <1>4 DEF IInv, TodoOK, Handling
<1>11. \A i \in Jobs : Opened(i)' = Opened(i) /\ (Unwritten(i)' <=> Unwritten(i)) /\ ~Handling(i)'
  BY <1>2, <1>7 DEF Opened, Unwritten, Handling
<1>12. 1..created \subseteq Jobs
  BY <1>1, LauncherAssumption DEF Jobs
<1>13. TypeOK'
  <2>1. launcher' \in {"read", "run", "remove"} => todo' # <<>>
    BY <1>2, <1>5
  <2>2. /\ launcher' \in {"off", "list", "read", "run", "remove", "beat"}
        /\ got' \in {"none", "job", "nothing"} /\ left' = left /\ beat' = beat
        /\ user' = user /\ recent' = recent /\ registered' = registered /\ trigger' = trigger
        /\ watch' = watch /\ died' = died /\ missed' = missed
    BY <1>2 DEF sessionVars
  <2>3. /\ beat' \in BOOLEAN /\ user' \in BOOLEAN /\ recent' \in BOOLEAN
        /\ registered' \in BOOLEAN /\ trigger' \in BOOLEAN /\ died' \in BOOLEAN /\ missed' \in BOOLEAN
        /\ left' \in Bounds /\ watch' \in {"off", "polling", "done"}
    BY <1>1, <2>2 DEF TypeOK
  <2>4. /\ page' \in [Clicks -> {"no", "waiting", "mirrored", "refused", "timeout"}]
        /\ backlog' \subseteq Clicks /\ hits' \in 0..MaxHits /\ created' \in 0..MaxJobs
        /\ serving' \in [who : Clicks \cup {Probe, NoClick}, job : 0..MaxJobs,
                         stage : {"idle", "write", "close", "answer", "refuse", "look"}]
        /\ owner' \in [Jobs -> Clicks \cup {Probe, NoClick}]
        /\ \A i \in Jobs : owner'[i] = NoClick <=> i > created'
        /\ log' \in [Jobs -> SUBSET {"ok", "err", "refused"}]
    BY <1>1, <1>7 DEF TypeOK
  <2>5. todo' \in Seq(Jobs) /\ opened' \in Seq(Jobs)
    BY <1>1, <1>5, <1>7
  <2>6. QED
    BY <1>8, <1>9, <2>1, <2>2, <2>3, <2>4, <2>5 DEF TypeOK
<1>14. LoggedBeforeGone'
  BY <1>7, <1>8, <1>10, <1>12 DEF IInv, LoggedBeforeGone
<1>15. MirroredIsQueued'
  BY <1>7, <1>8, <1>10, <1>12 DEF IInv, MirroredIsQueued
<1>16. RefusedStaysShut'
  BY <1>7, <1>11, <1>12 DEF IInv, RefusedStaysShut
<1>17. ServingOK'
  <2>1. serving.stage # "idle" => serving.job \in Jobs
    BY <1>1 DEF IInv, ServingOK, Jobs
  <2>2. serving.stage \in {"write", "close"} => file'[serving.job] = file[serving.job]
    BY <1>8, <2>1 DEF HandleOpen
  <2>3. serving.stage = "answer" => file'[serving.job] = "whole" \/ log[serving.job] # {}
    BY <1>8, <1>10, <2>1 DEF IInv, ServingOK
  <2>4. QED
    BY <1>7, <2>2, <2>3 DEF IInv, ServingOK
<1>18. OwnersOK'
  BY <1>7 DEF IInv, OwnersOK
<1>19. \A i \in Jobs : file'[i] # "none" => file[i] # "none"
  BY <1>8
<1>20. UnwrittenOK'
  <2>1. \A i \in Jobs : file'[i] = "whole" => file[i] = "whole"
    BY <1>8
  <2>2. QED
    BY <1>11, <2>1 DEF IInv, UnwrittenOK
<1>21. TodoOK'
  <2>1. \A m, n \in 1..Len(todo') : m < n => todo'[m] < todo'[n]
    <3>1. SUFFICES ASSUME NEW m \in 1..Len(todo'), NEW n \in 1..Len(todo'), m < n
                   PROVE  todo'[m] < todo'[n]
      OBVIOUS
    <3>2. m \in Int /\ n \in Int
      BY <1>5
    <3>3. m + 1 \in 1..Len(todo) /\ n + 1 \in 1..Len(todo) /\ m + 1 < n + 1
      BY <1>5, <3>1, <3>2
    <3>4. todo[m + 1] < todo[n + 1]
      BY <3>3 DEF IInv, TodoOK
    <3>5. QED
      BY <1>5, <3>4
  <2>2. \A n \in 1..Len(todo') : todo'[n] <= created
    BY <1>5 DEF IInv, TodoOK
  <2>3. ASSUME NEW i \in Jobs, file'[i] # "none"
        PROVE  (\E n \in 1..Len(todo') : todo'[n] = i) \/ (\A n \in 1..Len(todo') : todo'[n] < i)
    <3>1. (\E n \in 1..Len(todo) : todo[n] = i) \/ (\A n \in 1..Len(todo) : todo[n] < i)
      BY <1>19, <2>3 DEF IInv, TodoOK
    <3>2. CASE \A n \in 1..Len(todo) : todo[n] < i
      BY <1>5, <3>2
    <3>3. CASE \E n \in 1..Len(todo) : todo[n] = i
      <4>1. PICK n \in 1..Len(todo) : todo[n] = i
        BY <3>3
      <4>2. CASE n = 1
        <5>1. i = j /\ HandleOpen(j)
          BY <1>4, <1>8, <2>3, <4>1, <4>2
        <5>2. j = created
          BY <5>1 DEF HandleOpen, IInv, ServingOK
        <5>3. \A m \in 1..Len(todo) : 1 < m => todo[1] < todo[m] /\ todo[m] <= created
          BY <1>4 DEF IInv, TodoOK
        <5>4. \A m \in 1..Len(todo) : todo[m] \in Jobs
          BY <1>1
        <5>5. \A m \in 1..Len(todo) : ~(1 < m)
          BY <1>1, <1>4, <5>2, <5>3, <5>4 DEF Jobs
        <5>6. \A m \in 1..Len(todo') : FALSE
          BY <1>5, <5>5
        <5>7. QED
          BY <5>6
      <4>3. CASE n # 1
        <5>1. n - 1 \in 1..Len(todo') /\ (n - 1) + 1 = n
          BY <1>5, <4>1, <4>3
        <5>2. todo'[n - 1] = i
          BY <1>5, <4>1, <5>1
        <5>3. QED
          BY <5>1, <5>2
      <4>4. QED
        BY <4>2, <4>3
    <3>4. QED
      BY <3>1, <3>2, <3>3
  <2>4. QED
    BY <1>7, <1>11, <1>19, <2>1, <2>2, <2>3 DEF IInv, TodoOK
<1>22. OpenedOK'
  <2>1. \A i \in Jobs : Cardinality(Opened(i)) \in Nat
    BY <1>1, OpenedFinite
  <2>2. \A i \in Jobs :
          Cardinality(Opened(i)) <= kept'[i] + (IF file'[i] = "none" THEN 1 ELSE 0)
    <3>1. SUFFICES ASSUME NEW i \in Jobs
                   PROVE  Cardinality(Opened(i)) <= kept'[i] + (IF file'[i] = "none" THEN 1 ELSE 0)
      OBVIOUS
    <3>2. Cardinality(Opened(i)) <=
            kept[i] + (IF file[i] = "none" \/ (launcher = "remove" /\ got = "job" /\ Head(todo) = i)
                       THEN 1 ELSE 0)
      BY DEF IInv, OpenedOK
    <3>3. CASE i # j
      BY <1>1, <1>4, <1>8, <1>9, <3>2, <3>3
    <3>4. CASE i = j
      <4>1. Cardinality(Opened(j)) <= kept[j] + (IF file[j] = "none" \/ got = "job" THEN 1 ELSE 0)
        BY <1>2, <1>4, <3>2, <3>4
      <4>2. Cardinality(Opened(j)) \in Nat /\ kept[j] \in Nat
        BY <1>1, <2>1
      <4>3. CASE ~HandleOpen(j)
        BY <1>8, <1>9, <3>4, <4>1, <4>2, <4>3
      <4>4. CASE HandleOpen(j) /\ got = "job"
        BY <1>8, <1>9, <3>4, <4>1, <4>2, <4>4
      <4>5. CASE HandleOpen(j) /\ got # "job"
        BY <1>8, <1>9, <3>4, <4>1, <4>2, <4>5
      <4>6. QED
        BY <4>3, <4>4, <4>5
    <3>5. QED
      BY <3>3, <3>4
  <2>3. launcher' # "remove"
    BY <1>2
  <2>4. QED
    BY <1>7, <1>11, <1>19, <2>2, <2>3 DEF IInv, OpenedOK
<1>23. QED
  BY <1>13, <1>14, <1>15, <1>16, <1>17, <1>18, <1>20, <1>21, <1>22 DEF IInv

\* The launcher ends: the job it was to remove is counted as kept.
LEMMA DiesStep ==
  ASSUME IInv, Dies, UNCHANGED <<pageVars, serverVars, queueVars, beat, log, opened, recent,
                                 registered, watch>>,
         user' \in BOOLEAN, trigger' \in BOOLEAN, died' \in BOOLEAN /\ missed' \in BOOLEAN, left' \in Bounds
  PROVE  IInv'
<1>1. /\ TypeOK /\ todo \in Seq(Jobs) /\ opened \in Seq(Jobs) /\ kept \in [Jobs -> Nat]
      /\ \A i \in Jobs : kept[i] \in Nat /\ created \in 0..MaxJobs
      /\ launcher = "remove" => todo # <<>>
  BY DEF IInv, TypeOK
<1>2. /\ launcher' = "off" /\ todo' = <<>> /\ got' = "none"
      /\ kept' = IF launcher = "remove" /\ got = "job"
                 THEN [kept EXCEPT ![Head(todo)] = @ + 1] ELSE kept
  BY DEF Dies
<1>3. /\ page' = page /\ backlog' = backlog /\ serving' = serving /\ hits' = hits
      /\ created' = created /\ owner' = owner /\ file' = file /\ log' = log /\ opened' = opened
  BY DEF pageVars, serverVars, queueVars
<1>4. todo' \in Seq(Jobs) /\ Len(todo') = 0
  <2>1. <<>> \in Seq(Jobs) /\ Len(<<>>) = 0
    OBVIOUS
  <2>2. QED
    BY <1>2, <2>1
<1>5. /\ kept' \in [Jobs -> Nat]
      /\ \A i \in Jobs : kept'[i] = IF launcher = "remove" /\ got = "job" /\ Head(todo) = i
                                    THEN kept[i] + 1 ELSE kept[i]
  <2>1. launcher = "remove" => Head(todo) \in Jobs
    BY <1>1, HeadAndTail
  <2>2. QED
    BY <1>1, <1>2, <2>1
<1>6. TypeOK'
  BY <1>1, <1>2, <1>3, <1>4, <1>5 DEF TypeOK
<1>7. \A i \in Jobs : Opened(i)' = Opened(i) /\ (Unwritten(i)' <=> Unwritten(i)) /\ ~Handling(i)'
  BY <1>2, <1>3 DEF Opened, Unwritten, Handling
<1>8. 1..created \subseteq Jobs
  BY <1>1, LauncherAssumption DEF Jobs
<1>9. LoggedBeforeGone' /\ MirroredIsQueued'
  BY <1>3 DEF IInv, LoggedBeforeGone, MirroredIsQueued
<1>10. RefusedStaysShut'
  BY <1>3, <1>7, <1>8 DEF IInv, RefusedStaysShut
<1>11. ServingOK' /\ OwnersOK'
  BY <1>3 DEF IInv, ServingOK, OwnersOK
<1>12. UnwrittenOK'
  BY <1>3, <1>7 DEF IInv, UnwrittenOK
<1>13. TodoOK'
  <2>1. \A n \in 1..Len(todo') : FALSE
    BY <1>4
  <2>2. QED
    BY <1>3, <1>7, <2>1 DEF IInv, TodoOK
<1>14. OpenedOK'
  <2>1. \A i \in Jobs : Cardinality(Opened(i)) \in Nat
    BY <1>1, OpenedFinite
  <2>2. \A i \in Jobs :
          Cardinality(Opened(i)) <= kept'[i] + (IF file[i] = "none" THEN 1 ELSE 0)
    BY <1>1, <1>5, <2>1 DEF IInv, OpenedOK
  <2>3. QED
    BY <1>2, <1>3, <1>7, <2>2 DEF IInv, OpenedOK
<1>15. QED
  BY <1>6, <1>9, <1>10, <1>11, <1>12, <1>13, <1>14 DEF IInv

-----------------------------------------------------------------------------
LEMMA InitIInv == Init => IInv
<1> SUFFICES ASSUME Init
             PROVE  IInv
  OBVIOUS
<1> USE LauncherAssumption
<1>1. /\ left \in Bounds /\ page = [c \in Clicks |-> "no"] /\ backlog = {} /\ serving = Idle
      /\ hits = 0 /\ created = 0 /\ owner = [j \in Jobs |-> NoClick]
      /\ file = [j \in Jobs |-> "none"] /\ launcher = "off" /\ todo = <<>> /\ got = "none"
      /\ beat = FALSE /\ log = [j \in Jobs |-> {}] /\ opened = <<>> /\ kept = [j \in Jobs |-> 0]
      /\ user = FALSE /\ recent = FALSE /\ trigger = FALSE /\ watch = "off" /\ died = FALSE /\ missed = FALSE
      /\ registered \in BOOLEAN
  BY DEF Init
<1>2. /\ Idle.stage = "idle" /\ Idle.job = 0
      /\ Idle \in [who : Clicks \cup {Probe, NoClick}, job : 0..MaxJobs,
                   stage : {"idle", "write", "close", "answer", "refuse", "look"}]
  BY DEF Idle
<1>3. /\ <<>> \in Seq(Jobs) /\ Len(<<>>) = 0
  OBVIOUS
<1>4. \A j \in Jobs : owner[j] = NoClick /\ j > 0
  BY <1>1 DEF Jobs
<1>5. TypeOK
  <2>1. hits \in 0..MaxHits /\ created \in 0..MaxJobs
    BY <1>1
  <2>2. \A j \in Jobs : owner[j] = NoClick <=> j > created
    BY <1>1, <1>4
  <2>3. /\ page \in [Clicks -> {"no", "waiting", "mirrored", "refused", "timeout"}]
        /\ owner \in [Jobs -> Clicks \cup {Probe, NoClick}]
        /\ file \in [Jobs -> {"none", "empty", "whole"}]
        /\ log \in [Jobs -> SUBSET {"ok", "err", "refused"}] /\ kept \in [Jobs -> Nat]
    BY <1>1
  <2>4. QED
    BY <1>1, <1>2, <1>3, <2>1, <2>2, <2>3 DEF TypeOK
<1>6. \A j \in Jobs : Opened(j) = {} /\ ~Handling(j) /\ ~Unwritten(j)
  <2>1. \A j \in Jobs : Opened(j) = {}
    BY <1>1, <1>3 DEF Opened
  <2>2. NoClick \notin Clicks
    OBVIOUS
  <2>3. QED
    BY <1>1, <1>2, <1>4, <2>1, <2>2 DEF Handling, Unwritten
<1>7. LoggedBeforeGone /\ MirroredIsQueued /\ RefusedStaysShut
  BY <1>1 DEF LoggedBeforeGone, MirroredIsQueued, RefusedStaysShut
<1>8. ServingOK
  BY <1>1, <1>2 DEF ServingOK
<1>9. OwnersOK
  BY <1>1, <1>4 DEF OwnersOK
<1>10. UnwrittenOK
  BY <1>6 DEF UnwrittenOK
<1>11. TodoOK
  BY <1>1, <1>3, <1>6 DEF TodoOK
<1>12. OpenedOK
  <2>1. \A j \in Jobs : Cardinality(Opened(j)) = 0
    BY <1>6, FS_EmptySet
  <2>2. QED
    BY <1>1, <1>3, <2>1 DEF OpenedOK
<1>13. QED
  BY <1>5, <1>7, <1>8, <1>9, <1>10, <1>11, <1>12 DEF IInv

LEMMA NextIInv == IInv /\ [Next]_vars => IInv'
<1> SUFFICES ASSUME IInv, [Next]_vars
             PROVE  IInv'
  OBVIOUS
<1>1. /\ TypeOK /\ beat \in BOOLEAN /\ user \in BOOLEAN /\ recent \in BOOLEAN
      /\ registered \in BOOLEAN /\ trigger \in BOOLEAN /\ died \in BOOLEAN /\ missed \in BOOLEAN /\ left \in Bounds
      /\ watch \in {"off", "polling", "done"} /\ hits \in 0..MaxHits /\ hits <= hits
  BY LauncherAssumption DEF IInv, TypeOK
<1>2. ASSUME NEW c \in Clicks, Click(c) \/ TimesOut(c) \/ Drop(c)
      PROVE  IInv'
  BY <1>2, ClickStep
<1>3. ASSUME ServerStep
      PROVE  IInv'
  BY <1>3, QueueRouteStep, WritesStep, ClosesStep, AnswersStep, ProbeEndsStep DEF ServerStep
<1>4. CASE SelfTest
  BY <1>4, SelfTestStep
<1>5. CASE ServerRestarts
  BY <1>5, ServerRestartsStep
<1>6. ASSUME LauncherStep
      PROVE  IInv'
  BY <1>6, ListsStep, ReadsStep, RunsStep, RemovesStep, SessionSteps DEF LauncherStep
<1>7. CASE LauncherDies
  <2>1. left' \in Bounds
    BY <1>1, <1>7, SpendType DEF LauncherDies
  <2>2. QED
    BY <1>1, <1>7, <2>1, DiesStep DEF LauncherDies
<1>8. CASE Logoff
  BY <1>1, <1>8, DiesStep DEF Logoff
<1>9. CASE \/ HitExpires \/ Health \/ BeatAges \/ Logon \/ EventAges
           \/ TaskStarts \/ TaskRestarts \/ WatchFires
  BY <1>9, SessionSteps
<1>10. CASE UNCHANGED vars
  <2>1. /\ UNCHANGED <<pageVars, serving, queueVars, todo, got, runVars>>
        /\ hits' = hits /\ launcher' = launcher /\ beat' = beat /\ left' = left
        /\ UNCHANGED <<user, recent, registered, trigger, watch, died, missed>>
    BY <1>10 DEF vars, serverVars, serviceVars, sessionVars
  <2>2. QED
    BY <1>1, <2>1, ElsewhereStep
<1>11. QED
  BY <1>2, <1>3, <1>4, <1>5, <1>6, <1>7, <1>8, <1>9, <1>10 DEF Next

\* IInv holds of every state the queue, the page, the launcher and the session
\* can reach together.
THEOREM LauncherInvariance == Spec => []IInv
<1>1. Init => IInv
  BY InitIInv
<1>2. IInv /\ [Next]_vars => IInv'
  BY NextIInv
<1>3. QED
  BY <1>1, <1>2, PTL DEF Spec

\* Every click is accounted for, whoever dies or restarts: a job leaves the
\* queue only with a line in the log, what the page calls mirrored is queued
\* whole or logged, what it calls refused is never opened, and what the log
\* calls ok was (openMirrored, the queue's route, the launcher's loop).
THEOREM ClicksKept == Spec => []ClicksAccountedFor
<1>1. IInv => ClicksAccountedFor
  BY DEF IInv, ClicksAccountedFor
<1>2. QED
  BY <1>1, LauncherInvariance, PTL

\* The launcher's sorted listing suffices for the order: links are opened in the
\* order in which the server took them, across listings, deaths and logoffs,
\* and once each, but for the times a file could not be removed.
THEOREM OrderKept == Spec => []OpenedInOrder
<1>1. IInv => OpenedInOrder
  <2>1. SUFFICES ASSUME IInv
                 PROVE  OpenedInOrder
    OBVIOUS
  <2>2. \A j \in Jobs : Cardinality(Opened(j)) \in Nat /\ kept[j] \in Nat
    BY <2>1, OpenedFinite DEF IInv, TypeOK
  <2>3. \A j \in Jobs : Cardinality(Opened(j)) <= 1 + kept[j]
    BY <2>1, <2>2 DEF IInv, OpenedOK
  <2>4. QED
    BY <2>1, <2>3 DEF IInv, OpenedOK, OpenedInOrder
<1>2. QED
  BY <1>1, LauncherInvariance, PTL
=============================================================================
