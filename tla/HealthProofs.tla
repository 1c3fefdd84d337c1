---------------------------- MODULE HealthProofs ----------------------------
(***************************************************************************)
(* Theorems about Health, for any keys, results, capacity and settings:    *)
(* the state that is shown is the one the whole history calls for, if the  *)
(* window fits the ring, and it never jumps between up and down, whether   *)
(* the window fits or not.                                                 *)
(***************************************************************************)
EXTENDS Health, StoreProofs, FiniteSetTheorems, FunctionTheorems

(* Each step of Health is a step of the store or leaves the store alone.   *)
LEMMA StoreRuns == HealthSpec => Spec
<1>1. HealthInit => Init
  BY DEF HealthInit
<1>2. [HealthNext]_healthVars => [Next]_bufs
  BY DEF HealthNext, Probed, AllRecorded, healthVars, Next
<1>3. QED
  BY <1>1, <1>2, PTL DEF HealthSpec, Spec

(* Two rings that are appended to in any order implement the log.          *)
THEOREM KeepsLog == HealthSpec => LogSpec
BY StoreRuns, Implements

-----------------------------------------------------------------------------
(* The results of a history that a ring retains.                           *)
Kept(h) == IF Len(h) <= Cap THEN h ELSE Log!LastN(h, Cap)

LEMMA KeptSeq ==
  ASSUME NEW h \in Seq(Result)
  PROVE  /\ Kept(h) \in Seq(Result)
         /\ Len(Kept(h)) = IF Len(h) <= Cap THEN Len(h) ELSE Cap
         /\ \A i \in 1 .. Len(Kept(h)) : Kept(h)[i] = h[i + Len(h) - Len(Kept(h))]
<1>1. CASE Len(h) <= Cap
  BY <1>1 DEF Kept
<1>2. CASE ~ (Len(h) <= Cap)
  <2> DEFINE n == Len(h)
             s == SubSeq(h, n - Cap + 1, n)
  <2>1. n \in Nat /\ n > Cap /\ Kept(h) = s
    BY <1>2, CapPositive DEF Kept, Log!LastN
  <2>2. s \in Seq(Result) /\ Len(s) = Cap /\ \A i \in 1 .. Cap : s[i] = h[i + n - Cap]
    BY <2>1, CapPositive
  <2>3. QED
    BY <1>2, <2>1, <2>2
<1>3. QED
  BY <1>1, <1>2

(* Recording in the log is recording in the history.                       *)
LEMMA KeptAppend ==
  ASSUME NEW h \in Seq(Result), NEW r \in Result
  PROVE  Kept(Append(h, r)) = Log!Recorded(Kept(h), r)
<1> DEFINE n == Len(h)
           g == Append(h, r)
<1>1. /\ n \in Nat /\ g \in Seq(Result) /\ Len(g) = n + 1
      /\ g[n + 1] = r /\ \A i \in 1 .. n : g[i] = h[i]
  OBVIOUS
<1>2. CASE n <= Cap
  BY <1>1, <1>2, CapPositive DEF Kept, Log!Recorded
<1>3. CASE n > Cap
  <2> DEFINE s == Kept(h)
             t == Append(s, r)
  <2>1. /\ s \in Seq(Result) /\ Len(s) = Cap
        /\ \A i \in 1 .. Cap : s[i] = h[i + n - Cap]
    <3>1. Len(s) = Cap
      BY <1>1, <1>3, KeptSeq, CapPositive
    <3>2. s \in Seq(Result) /\ \A i \in 1 .. Len(s) : s[i] = h[i + n - Len(s)]
      BY KeptSeq
    <3>3. QED
      BY <3>1, <3>2
  <2> HIDE DEF s
  <2>2. /\ t \in Seq(Result) /\ Len(t) = Cap + 1
        /\ t[Cap + 1] = r /\ \A i \in 1 .. Cap : t[i] = s[i]
    BY <2>1, CapPositive
  <2>3. Log!Recorded(s, r) = SubSeq(t, 2, Cap + 1)
    BY <2>1, <2>2, CapPositive DEF Log!Recorded, Log!LastN
  <2> HIDE DEF t, g
  <2>4. Kept(g) = SubSeq(g, n + 2 - Cap, n + 1)
    <3>1. ~ (n + 1 <= Cap) /\ (n + 1) - Cap + 1 = n + 2 - Cap
      BY <1>1, <1>3, CapPositive
    <3> HIDE DEF n
    <3>2. QED
      BY <1>1, <3>1 DEF Kept, Log!LastN
  <2>5. SubSeq(t, 2, Cap + 1) = [i \in 1 .. Cap |-> t[i + 1]]
    BY <2>2, CapPositive
  <2>6. SubSeq(g, n + 2 - Cap, n + 1) = [i \in 1 .. Cap |-> g[i + n + 1 - Cap]]
    BY <1>1, <1>3, CapPositive
  <2>7. ASSUME NEW i \in 1 .. Cap
        PROVE  t[i + 1] = g[i + n + 1 - Cap]
    <3>1. CASE i = Cap
      <4>1. i + n + 1 - Cap = n + 1
        BY <1>1, <3>1, CapPositive
      <4>2. QED
        BY <1>1, <2>2, <3>1, <4>1
    <3>2. CASE i # Cap
      <4>1. /\ i + 1 \in 1 .. Cap
            /\ i + n + 1 - Cap \in 1 .. n
            /\ (i + 1) + n - Cap = i + n + 1 - Cap
        BY <1>1, <1>3, <3>2, CapPositive
      <4>2. QED
        BY <1>1, <2>1, <2>2, <4>1
    <3>3. QED
      BY <3>1, <3>2
  <2>8. QED
    BY <2>3, <2>4, <2>5, <2>6, <2>7 DEF s, g
<1>4. QED
  BY <1>1, <1>2, <1>3, CapPositive

-----------------------------------------------------------------------------
(* The inductive invariant: each ring retains the end of its history, and  *)
(* a key exists when it has one.                                           *)
Recalls ==
  \A k \in Key : /\ Snapshot(k) = Kept(hist[k])
                 /\ k \in Keys <=> hist[k] # <<>>

HInv == IInv /\ HealthTypeOK /\ Recalls

LEMMA ProbedStep ==
  ASSUME HInv, NEW k \in Key, NEW r \in Result, Probed(k, r), IInv'
  PROVE  HInv'
<1>1. /\ AppendResult(k, r) /\ settings' = settings
      /\ hist' = [hist EXCEPT ![k] = Append(@, r)]
  BY DEF Probed
<1>2. /\ Snapshot(k)' = Log!Recorded(Snapshot(k), r)
      /\ \A x \in Key \ {k} : Snapshot(x)' = Snapshot(x)
      /\ Keys' = Keys \cup {k}
  BY <1>1, AppendRecords DEF HInv
<1>3. hist \in [Key -> Seq(Result)] /\ settings \in Settings
  BY DEF HInv, HealthTypeOK
<1>4. HealthTypeOK'
  <2>1. hist' \in [Key -> Seq(Result)]
    BY <1>1, <1>3
  <2>2. QED
    BY <1>1, <1>3, <2>1 DEF HealthTypeOK, IInv
<1>5. ASSUME NEW x \in Key
      PROVE  Snapshot(x)' = Kept(hist'[x]) /\ (x \in Keys' <=> hist'[x] # <<>>)
  <2>1. CASE x = k
    <3>1. hist'[k] = Append(hist[k], r) /\ hist[k] \in Seq(Result)
      BY <1>1, <1>3
    <3>2. Append(hist[k], r) # <<>>
      BY <3>1
    <3>3. Kept(hist'[k]) = Log!Recorded(Kept(hist[k]), r)
      BY <3>1, KeptAppend
    <3>4. QED
      BY <1>2, <2>1, <3>1, <3>2, <3>3 DEF HInv, Recalls
  <2>2. CASE x # k
    BY <1>1, <1>2, <1>3, <2>2 DEF HInv, Recalls
  <2>3. QED
    BY <2>1, <2>2
<1>6. Recalls'
  <2>1. \A x \in Key : Kept(hist[x])' = Kept(hist'[x])
    BY DEF Kept, Log!LastN
  <2>2. QED
    BY <1>5, <2>1 DEF Recalls
<1>7. QED
  BY <1>4, <1>6 DEF HInv

LEMMA HealthInvariance == HealthSpec => []HInv
<1>1. HealthInit => HealthTypeOK /\ Recalls
  <2> SUFFICES ASSUME HealthInit PROVE HealthTypeOK /\ Recalls
    OBVIOUS
  <2>1. bufs = [k \in {} |-> newRing] /\ hist = [k \in Key |-> <<>>] /\ settings \in Settings
    BY DEF HealthInit, Init
  <2>2. TypeOK
    BY <2>1 DEF TypeOK
  <2>3. hist \in [Key -> Seq(Result)]
    BY <2>1
  <2>4. Recalls
    <3>1. DOMAIN bufs = {} /\ \A k \in Key : hist[k] = <<>>
      BY <2>1
    <3>2. \A k \in Key : Snapshot(k) = <<>> /\ k \notin Keys
      BY <3>1 DEF Snapshot, Keys
    <3>3. Kept(<<>>) = <<>>
      BY CapPositive DEF Kept
    <3>4. QED
      BY <3>1, <3>2, <3>3 DEF Recalls
  <2>5. QED
    BY <2>1, <2>2, <2>3, <2>4 DEF HealthTypeOK
<1>2. HInv /\ IInv' /\ [HealthNext]_healthVars => HInv'
  <2> SUFFICES ASSUME HInv, IInv', [HealthNext]_healthVars
               PROVE  HInv'
    OBVIOUS
  <2>1. ASSUME NEW k \in Key, NEW r \in Result, Probed(k, r)
        PROVE  HInv'
    BY <2>1, ProbedStep
  <2>2. CASE UNCHANGED healthVars
    BY <2>2 DEF healthVars, HInv, HealthTypeOK, TypeOK, Recalls, Snapshot, snapshot, Kept,
                Log!LastN, Keys
  <2>3. QED
    BY <2>1, <2>2 DEF HealthNext, AllRecorded
<1>3. HealthSpec => []IInv
  BY StoreRuns, Invariance, PTL
<1>4. QED
  BY <1>1, <1>2, <1>3, PTL DEF HealthSpec, HInv

(* The rings stay well formed and the settings valid, for any number of    *)
(* results.                                                                *)
THEOREM HealthTypeCorrect == HealthSpec => []HealthTypeOK
<1>1. HInv => HealthTypeOK
  BY DEF HInv
<1>2. QED
  BY HealthInvariance, <1>1, PTL

-----------------------------------------------------------------------------
(* The failures among the last n results of a history.                     *)
Failed(h, n) == {i \in DOMAIN h : i > Len(h) - n /\ h[i] \notin Success}

LEMMA FailedFinite ==
  ASSUME NEW h \in Seq(Result), NEW n
  PROVE  IsFiniteSet(Failed(h, n)) /\ Cardinality(Failed(h, n)) \in Nat
<1>1. IsFiniteSet(1 .. Len(h)) /\ DOMAIN h = 1 .. Len(h)
  BY FS_Interval
<1>2. Failed(h, n) \in SUBSET (1 .. Len(h))
  BY <1>1 DEF Failed
<1>3. QED
  BY <1>1, <1>2, FS_Subset, FS_CardinalityType

(* A window that fits the ring counts the failures of the history.         *)
LEMMA FailuresKept ==
  ASSUME NEW h \in Seq(Result), NEW w \in Nat, w <= Cap, w <= Len(h)
  PROVE  Failures(Trailing(Kept(h), w)) = Cardinality(Failed(h, w))
<1> DEFINE n == Len(h)
           s == Kept(h)
           t == Trailing(s, w)
           F == {i \in DOMAIN t : t[i] \notin Success}
           f == [i \in F |-> i + n - w]
<1>1. /\ s \in Seq(Result) /\ n \in Nat /\ Len(s) \in Nat
      /\ w <= Len(s) /\ Len(s) <= n
      /\ \A i \in 1 .. Len(s) : s[i] = h[i + n - Len(s)]
  BY KeptSeq, CapPositive
<1> HIDE DEF s
<1>2. t = [i \in 1 .. w |-> s[i + Len(s) - w]]
  BY <1>1 DEF Trailing
<1>3. \A i \in 1 .. w : t[i] = h[i + n - w]
  <2> SUFFICES ASSUME NEW i \in 1 .. w PROVE t[i] = h[i + n - w]
    OBVIOUS
  <2>1. i + Len(s) - w \in 1 .. Len(s) /\ (i + Len(s) - w) + n - Len(s) = i + n - w
    BY <1>1
  <2>2. s[i + Len(s) - w] = h[i + n - w]
    BY <1>1, <2>1
  <2>3. QED
    BY <1>2, <2>2
<1>4. DOMAIN t = 1 .. w
  BY <1>2
<1> HIDE DEF t
<1>5. F \subseteq 1 .. w
  BY <1>4
<1>6. Failed(h, w) = {i \in 1 .. n : i > n - w /\ h[i] \notin Success}
  BY DEF Failed
<1>7. f \in [F -> Failed(h, w)]
  <2> SUFFICES ASSUME NEW i \in F PROVE i + n - w \in Failed(h, w)
    OBVIOUS
  <2>1. i \in 1 .. w /\ t[i] \notin Success
    BY <1>5
  <2>2. i + n - w \in 1 .. n /\ i + n - w > n - w
    BY <1>1, <2>1
  <2>3. QED
    BY <1>3, <1>6, <2>1, <2>2
<1>8. \A a, b \in F : f[a] = f[b] => a = b
  BY <1>1, <1>5
<1>9. \A i \in Failed(h, w) : \E a \in F : f[a] = i
  <2> SUFFICES ASSUME NEW i \in Failed(h, w) PROVE \E a \in F : f[a] = i
    OBVIOUS
  <2>1. i \in 1 .. n /\ i > n - w /\ h[i] \notin Success
    BY <1>6
  <2>2. i - n + w \in 1 .. w /\ (i - n + w) + n - w = i
    BY <1>1, <2>1
  <2>3. i - n + w \in F
    BY <1>3, <1>4, <2>1, <2>2
  <2>4. f[i - n + w] = i
    BY <2>2, <2>3
  <2>5. QED
    BY <2>3, <2>4
<1>10. ExistsBijection(F, Failed(h, w))
  <2> HIDE DEF F, f
  <2>1. f \in Bijection(F, Failed(h, w))
    BY <1>7, <1>8, <1>9, Fun_IsBij
  <2>2. QED
    BY <2>1 DEF ExistsBijection
<1>11. IsFiniteSet(F)
  <2>1. IsFiniteSet(1 .. w)
    BY FS_Interval
  <2>2. QED
    BY <1>5, <2>1, FS_Subset
<1>12. Cardinality(Failed(h, w)) = Cardinality(F)
  BY <1>10, <1>11, FS_Bijection
<1>13. QED
  BY <1>12 DEF Failures, t, s

(* What the classifier makes of the ring, in terms of the history: nothing *)
(* if the window is wider than the ring or the history, and what the       *)
(* failures of the window call for otherwise.                              *)
LEMMA ClassifyKept ==
  ASSUME NEW h \in Seq(Result), NEW w \in Nat, NEW t \in Int
  PROVE  LET c == Classify(Kept(h), w, t)
             f == Cardinality(Failed(h, w))
         IN  IF w > Cap \/ Len(h) < w THEN c = Unknown
             ELSE c = IF f >= t THEN Down ELSE IF f = 0 THEN Up ELSE Degraded
<1>1. Len(Kept(h)) = IF Len(h) <= Cap THEN Len(h) ELSE Cap
  BY KeptSeq
<1>2. CASE w > Cap \/ Len(h) < w
  <2>1. Len(Kept(h)) < w
    BY <1>1, <1>2, CapPositive
  <2>2. QED
    BY <1>2, <2>1 DEF Classify
<1>3. CASE ~ (w > Cap \/ Len(h) < w)
  <2>1. w <= Cap /\ w <= Len(h) /\ ~ (Len(Kept(h)) < w)
    BY <1>1, <1>3, CapPositive
  <2>2. Failures(Trailing(Kept(h), w)) = Cardinality(Failed(h, w))
    BY <2>1, FailuresKept
  <2>3. Cardinality(Failed(h, w)) \in Nat
    BY FailedFinite
  <2>4. QED
    BY <1>3, <2>1, <2>2, <2>3 DEF Classify
<1>4. QED
  BY <1>2, <1>3

(* The settings that the doc of Classify takes for granted; Validate lets  *)
(* others pass.                                                            *)
Fitting == \A s \in Settings : s.threshold >= 1 /\ s.window <= Cap

(* With a threshold of at least one and a window that fits the ring, the   *)
(* state is the one that all that ever happened calls for.                 *)
THEOREM StatesMatchHistory ==
  ASSUME Fitting
  PROVE  HealthSpec => []MatchesHistory
<1>1. HInv => MatchesHistory
  <2> SUFFICES ASSUME HInv, NEW k \in Keys
               PROVE  LET failed == Cardinality(FailedIn(k, LastOf(k, settings.window)))
                      IN  /\ StateOf(k) = Unknown <=> Len(hist[k]) < settings.window
                          /\ Len(hist[k]) >= settings.window =>
                               /\ StateOf(k) = Down <=> failed >= settings.threshold
                               /\ StateOf(k) = Up <=> failed = 0
                               /\ StateOf(k) = Degraded
                                    <=> failed \in 1 .. settings.threshold - 1
    BY DEF MatchesHistory
  <2> DEFINE h == hist[k]
             w == settings.window
             t == settings.threshold
             f == Cardinality(Failed(h, w))
  <2>1. k \in Key
    BY DEF HInv, IInv, TypeOK, Keys
  <2>2. h \in Seq(Result) /\ Snapshot(k) = Kept(h)
    BY <2>1 DEF HInv, HealthTypeOK, Recalls
  <2>3. settings \in Settings
    BY DEF HInv, HealthTypeOK
  <2>4. w \in Nat /\ t \in Int /\ t <= w /\ t >= 1 /\ w <= Cap
    BY <2>3, SettingsAssumption DEF Fitting, ValidSettings
  <2>5. StateOf(k) = Classify(Kept(h), w, t)
    BY <2>2 DEF StateOf
  <2>6. FailedIn(k, LastOf(k, w)) = Failed(h, w)
    BY DEF FailedIn, LastOf, Failed
  <2>7. f \in Nat /\ Len(h) \in Nat
    BY <2>2, FailedFinite
  <2> HIDE DEF h, w, t, f
  <2>8. StateOf(k) = IF w > Cap \/ Len(h) < w THEN Unknown
                     ELSE IF f >= t THEN Down ELSE IF f = 0 THEN Up ELSE Degraded
    BY <2>2, <2>4, <2>5, ClassifyKept DEF f
  <2>9. /\ StateOf(k) = Unknown <=> Len(h) < w
        /\ Len(h) >= w => /\ StateOf(k) = Down <=> f >= t
                          /\ StateOf(k) = Up <=> f = 0
                          /\ StateOf(k) = Degraded <=> f \in 1 .. t - 1
    BY <2>4, <2>7, <2>8, CapPositive DEF Unknown, Up, Degraded, Down
  <2>10. QED
    BY <2>6, <2>9 DEF h, w, t, f
<1>2. QED
  BY HealthInvariance, <1>1, PTL

(* What becomes of the settings that Validate lets pass although they do   *)
(* not fit: with a window wider than the ring every pair is unknown for    *)
(* ever, however often it fails.                                           *)
THEOREM WideWindowStaysUnknown ==
  ASSUME \A s \in Settings : s.window > Cap
  PROVE  HealthSpec => [](\A k \in Keys : StateOf(k) = Unknown)
<1>1. HInv => \A k \in Keys : StateOf(k) = Unknown
  <2> SUFFICES ASSUME HInv, NEW k \in Keys PROVE StateOf(k) = Unknown
    OBVIOUS
  <2>1. k \in Key
    BY DEF HInv, IInv, TypeOK, Keys
  <2>2. hist[k] \in Seq(Result) /\ Snapshot(k) = Kept(hist[k])
    BY <2>1 DEF HInv, HealthTypeOK, Recalls
  <2>3. settings.window \in Nat /\ settings.threshold \in Int /\ settings.window > Cap
    BY SettingsAssumption DEF HInv, HealthTypeOK
  <2>4. QED
    BY <2>2, <2>3, ClassifyKept DEF StateOf
<1>2. QED
  BY HealthInvariance, <1>1, PTL

(* And with a threshold of 0, which is what an omitted setting decodes to, *)
(* every pair is down as soon as its window is full, however healthy it    *)
(* is: the first arm of the switch wins before failures are compared with  *)
(* none.                                                                   *)
THEOREM ZeroThresholdIsDown ==
  ASSUME \A s \in Settings : s.threshold <= 0 /\ s.window <= Cap
  PROVE  HealthSpec =>
           [](\A k \in Keys :
                StateOf(k) = IF Len(hist[k]) < settings.window THEN Unknown ELSE Down)
<1>1. HInv => \A k \in Keys :
                StateOf(k) = IF Len(hist[k]) < settings.window THEN Unknown ELSE Down
  <2> SUFFICES ASSUME HInv, NEW k \in Keys
               PROVE  StateOf(k) = IF Len(hist[k]) < settings.window THEN Unknown ELSE Down
    OBVIOUS
  <2>1. k \in Key
    BY DEF HInv, IInv, TypeOK, Keys
  <2>2. hist[k] \in Seq(Result) /\ Snapshot(k) = Kept(hist[k])
    BY <2>1 DEF HInv, HealthTypeOK, Recalls
  <2>3. /\ settings.window \in Nat /\ settings.threshold \in Int
        /\ settings.window <= Cap /\ settings.threshold <= 0
    BY SettingsAssumption DEF HInv, HealthTypeOK
  <2>4. Cardinality(Failed(hist[k], settings.window)) \in Nat
    BY <2>2, <2>3, FailedFinite
  <2>5. QED
    BY <2>2, <2>3, <2>4, ClassifyKept, CapPositive DEF StateOf
<1>2. QED
  BY HealthInvariance, <1>1, PTL

-----------------------------------------------------------------------------
(* One more result adds at most itself to the failures of the window and   *)
(* takes at most one away.                                                 *)
LEMMA WindowMoves ==
  ASSUME NEW h \in Seq(Result), NEW r \in Result, NEW w \in Nat
  PROVE  LET g == Append(h, r)
         IN  /\ Failed(g, w) \subseteq Failed(h, w) \cup {Len(h) + 1}
             /\ Failed(h, w) \subseteq Failed(g, w) \cup {Len(h) - w + 1}
<1> DEFINE g == Append(h, r)
           n == Len(h)
<1>1. n \in Nat /\ Len(g) = n + 1 /\ DOMAIN g = 1 .. n + 1 /\ DOMAIN h = 1 .. n
      /\ \A i \in 1 .. n : g[i] = h[i]
  OBVIOUS
<1> HIDE DEF g, n
<1>2. Failed(g, w) = {i \in 1 .. n + 1 : i > n + 1 - w /\ g[i] \notin Success}
  BY <1>1 DEF Failed
<1>3. Failed(h, w) = {i \in 1 .. n : i > n - w /\ h[i] \notin Success}
  BY <1>1 DEF Failed, n
<1>4. ASSUME NEW i \in Failed(g, w) PROVE i \in Failed(h, w) \cup {n + 1}
  <2>1. i \in 1 .. n + 1 /\ i > n + 1 - w /\ g[i] \notin Success
    BY <1>2
  <2>2. i = n + 1 \/ (i \in 1 .. n /\ i > n - w)
    BY <1>1, <2>1
  <2>3. QED
    BY <1>1, <1>3, <2>1, <2>2
<1>5. ASSUME NEW i \in Failed(h, w) PROVE i \in Failed(g, w) \cup {n - w + 1}
  <2>1. i \in 1 .. n /\ i > n - w /\ h[i] \notin Success
    BY <1>3
  <2>2. i = n - w + 1 \/ (i \in 1 .. n + 1 /\ i > n + 1 - w)
    BY <1>1, <2>1
  <2>3. QED
    BY <1>1, <1>2, <2>1, <2>2
<1>6. QED
  BY <1>4, <1>5 DEF g, n

LEMMA AtMostOne ==
  ASSUME NEW S, NEW T, NEW x, IsFiniteSet(T), Cardinality(T) = 0, S \subseteq T \cup {x}
  PROVE  IsFiniteSet(S) /\ Cardinality(S) \in Nat /\ Cardinality(S) <= 1
<1>1. T = {}
  BY FS_EmptySet
<1>2. S \in SUBSET {x}
  BY <1>1
<1>3. IsFiniteSet({x}) /\ Cardinality({x}) = 1
  BY FS_Singleton
<1>4. QED
  BY <1>2, <1>3, FS_Subset, FS_CardinalityType

(* For any settings that Validate accepts, one result never takes a pair   *)
(* from up to down or back unless one failure is enough for down.          *)
THEOREM NeverFlaps == HealthSpec => NoFlap
<1>1. HInv /\ HInv' /\ [HealthNext]_healthVars
        => [\A k \in Keys : settings.threshold > 1
                              => {StateOf(k), (StateOf(k))'} # {Up, Down}]_healthVars
  <2> SUFFICES ASSUME HInv, HInv', NEW c \in Key, NEW r \in Result, Probed(c, r),
                      NEW k \in Keys, settings.threshold > 1
               PROVE  {StateOf(k), (StateOf(k))'} # {Up, Down}
    BY DEF HealthNext, AllRecorded
  <2> DEFINE h == hist[k]
             w == settings.window
             t == settings.threshold
  <2>1. k \in Key
    BY DEF HInv, IInv, TypeOK, Keys
  <2>2. h \in Seq(Result) /\ h' \in Seq(Result) /\ hist \in [Key -> Seq(Result)]
    BY <2>1 DEF HInv, HealthTypeOK
  <2>3. Snapshot(k) = Kept(h) /\ Snapshot(k)' = Kept(h')
    <3>1. Kept(hist[k])' = Kept(hist'[k])
      BY DEF Kept, Log!LastN
    <3>2. QED
      BY <2>1, <3>1 DEF HInv, Recalls
  <2>4. settings \in Settings /\ settings' = settings
        /\ hist' = [hist EXCEPT ![c] = Append(@, r)]
    BY DEF HInv, HealthTypeOK, Probed
  <2>5. w \in Nat /\ t \in Int /\ t > 1
    BY <2>4, SettingsAssumption
  <2>6. StateOf(k) = Classify(Kept(h), w, t) /\ (StateOf(k))' = Classify(Kept(h'), w, t)
    BY <2>3, <2>4 DEF StateOf, Classify, Trailing, Failures
  <2>7. Up # Down /\ Up # Unknown /\ Down # Unknown /\ Up # Degraded /\ Down # Degraded
    BY DEF Up, Down, Unknown, Degraded
  <2>8. CASE k # c
    <3>1. h' = h
      BY <2>1, <2>2, <2>4, <2>8
    <3>2. StateOf(k) = (StateOf(k))'
      BY <2>6, <3>1
    <3>3. QED
      BY <2>7, <3>2
  <2>9. CASE k = c
    <3>1. h' = Append(h, r)
      BY <2>1, <2>2, <2>4, <2>9
    <3> DEFINE F == Failed(h, w)
               G == Failed(h', w)
    <3>2. F \subseteq G \cup {Len(h) - w + 1} /\ G \subseteq F \cup {Len(h) + 1}
      BY <2>2, <2>5, <3>1, WindowMoves
    <3>3. /\ IsFiniteSet(F) /\ Cardinality(F) \in Nat
          /\ IsFiniteSet(G) /\ Cardinality(G) \in Nat
      BY <2>2, FailedFinite
    <3>4. /\ StateOf(k) = Up => Cardinality(F) = 0
          /\ StateOf(k) = Down => Cardinality(F) >= t
      BY <2>2, <2>5, <2>6, <2>7, <3>3, ClassifyKept
    <3>5. /\ (StateOf(k))' = Up => Cardinality(G) = 0
          /\ (StateOf(k))' = Down => Cardinality(G) >= t
      BY <2>2, <2>5, <2>6, <2>7, <3>3, ClassifyKept
    <3> HIDE DEF F, G, h, w, t
    <3>6. ~ (StateOf(k) = Up /\ (StateOf(k))' = Down)
      <4>1. Cardinality(F) = 0 => Cardinality(G) <= 1
        BY <3>2, <3>3, AtMostOne
      <4>2. QED
        BY <2>5, <3>3, <3>4, <3>5, <4>1
    <3>7. ~ (StateOf(k) = Down /\ (StateOf(k))' = Up)
      <4>1. Cardinality(G) = 0 => Cardinality(F) <= 1
        BY <3>2, <3>3, AtMostOne
      <4>2. QED
        BY <2>5, <3>3, <3>4, <3>5, <4>1
    <3>8. QED
      BY <2>7, <3>6, <3>7
  <2>10. QED
    BY <2>8, <2>9
<1>2. QED
  BY HealthInvariance, <1>1, PTL DEF HealthSpec, NoFlap
=============================================================================
