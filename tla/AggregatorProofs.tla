-------------------------- MODULE AggregatorProofs --------------------------
(***************************************************************************)
(* Theorems about Aggregator, for any mesh, any results, any number of     *)
(* restarts and any window that fits the capacity: a view that is shown is *)
(* complete, each of its entries is one that its observer's store had, and *)
(* no view steps back behind the one before it.                            *)
(***************************************************************************)
EXTENDS Aggregator, TLAPS

(* Of the results of one life the retained ones are enough to classify it, *)
(* because the window is not wider than the capacity.                      *)
LEMMA RetainedSuffice ==
  ASSUME NEW life \in Seq(Outcome)
  PROVE  Classify(IF Len(life) <= Cap THEN life ELSE SL!LastN(life, Cap), Window, Threshold)
           = Classify(life, Window, Threshold)
<1>1. Cap \in Nat /\ Window \in Nat /\ 1 <= Window /\ Window <= Cap
  BY AggregatorAssumption
<1>2. CASE Len(life) <= Cap
  BY <1>2
<1>3. CASE Len(life) > Cap
  <2> DEFINE L == Len(life)
             kept == SubSeq(life, L - Cap + 1, L)
  <2>1. L \in Nat /\ L > Cap
    BY <1>3
  <2>2. kept \in Seq(Outcome) /\ Len(kept) = Cap
        /\ \A i \in 1 .. Cap : kept[i] = life[i + L - Cap]
    BY <1>1, <2>1
  <2>3. Trailing(kept, Window) = Trailing(life, Window)
    <3>1. Trailing(kept, Window) = [i \in 1 .. Window |-> kept[i + Cap - Window]]
      BY <1>1, <2>2 DEF Trailing
    <3>2. Trailing(life, Window) = [i \in 1 .. Window |-> life[i + L - Window]]
      BY <1>1, <2>1 DEF Trailing
    <3>3. \A i \in 1 .. Window : kept[i + Cap - Window] = life[i + L - Window]
      BY <1>1, <2>1, <2>2
    <3> HIDE DEF kept, L
    <3>4. QED
      BY <3>1, <3>2, <3>3
  <2>4. SL!LastN(life, Cap) = kept
    BY DEF SL!LastN
  <2> HIDE DEF kept
  <2>5. QED
    BY <1>1, <1>3, <2>1, <2>2, <2>3, <2>4 DEF Classify
<1>4. QED
  BY <1>1, <1>2, <1>3

LEMMA IsState ==
  ASSUME NEW results
  PROVE  Classify(results, Window, Threshold) \in {Unknown, Up, Degraded, Down}
BY DEF Classify

-----------------------------------------------------------------------------
(* A result is recorded after its life has begun, and those after the last *)
(* start belong to the present one.                                        *)
LivesOK ==
  \A n \in Node, k \in Key : \A i \in 1 .. Len(hist[n][k]) :
    /\ hist[n][k][i].life[k] + 1 \in 1 .. i
    /\ i > born[n][k] => hist[n][k][i].life = born[n]

(* The entry e for k is one that the store of n had when e.lastTS was its  *)
(* last result.                                                            *)
True(n, k, e) ==
  /\ e \in Entries /\ e.lastTS \in 1 .. Len(hist[n][k])
  /\ e.state = Classify(Outcomes(n, k, hist[n][k][e.lastTS].life[k] + 1, e.lastTS),
                        Window, Threshold)

(* All of the entries are, and they are of one life of n. *)
Right(n, s) ==
  /\ DOMAIN s \subseteq Key /\ \A k \in DOMAIN s : True(n, k, s[k])
  /\ \A j, k \in DOMAIN s : hist[n][j][s[j].lastTS].life = hist[n][k][s[k].lastTS].life

(* Samples s of n, with those of todo still to come, do not step back      *)
(* behind the view that is shown: what is older or missing in them has     *)
(* been forgotten by n.                                                    *)
Carries(n, todo, s) ==
  n \in DOMAIN shown =>
    \A k \in DOMAIN shown[n].samples :
      IF k \in DOMAIN s THEN s[k].lastTS >= shown[n].samples[k].lastTS
      ELSE k \in todo \/ shown[n].samples[k].lastTS <= born[n][k]

(* A local view of n under construction: as long as it is not complete it  *)
(* is of the present life.                                                 *)
Sound(n, todo, s) ==
  /\ todo \subseteq Keys(n) /\ Right(n, s) /\ Carries(n, todo, s)
  /\ todo # {} => \A k \in DOMAIN s : hist[n][k][s[k].lastTS].life = born[n]

Phase ==
  /\ DOMAIN fetch = PeersOf[Me]
  /\ call \in {"idle", "local", "fetch"}
  /\ call # "fetch" => \A p \in PeersOf[Me] : fetch[p].pc = "over"
  /\ call = "fetch" => DOMAIN mv = {Me} \cup {p \in PeersOf[Me] : fetch[p].pc = "over"}
  /\ call # "fetch" => mv = Empty
  /\ \A p \in PeersOf[Me] : fetch[p].pc \in {"sent", "serving", "broken", "over"}

(* Answers that have been merged. *)
Merged ==
  /\ DOMAIN mv \subseteq Node
  /\ \A n \in DOMAIN mv :
       \/ mv[n].reachable = TRUE /\ Sound(n, {}, mv[n].samples)
       \/ mv[n] = Unreachable

(* The view that is shown. *)
Shown ==
  /\ DOMAIN shown \subseteq Node
  /\ \A n \in DOMAIN shown : shown[n].reachable \in BOOLEAN /\ Right(n, shown[n].samples)

Histories ==
  /\ hist \in [Node -> [Key -> Seq(Results)]]
  /\ born \in [Node -> [Key -> Nat]]
  /\ \A n \in Node, k \in Key : born[n][k] <= Len(hist[n][k])
  /\ starts \in 0 .. MaxStarts

Local == IF call = "local" THEN Sound(Me, local.todo, local.samples) ELSE local = NoCall

Served ==
  \A p \in PeersOf[Me] :
    fetch[p].pc = "serving" => Sound(p, fetch[p].view.todo, fetch[p].view.samples)

(* The inductive invariant. *)
IInv ==
  /\ Histories /\ LivesOK /\ Phase /\ Local /\ Served /\ Merged /\ Shown
  /\ EveryPeerShown

LEMMA InitHolds == Init => IInv
<1> SUFFICES ASSUME Init PROVE IInv
  OBVIOUS
<1>1. Histories /\ LivesOK
  BY AggregatorAssumption DEF Init, Histories, LivesOK
<1>2. Phase /\ Local /\ Served
  BY DEF Init, Phase, Local, Served
<1>3. Merged /\ Shown /\ EveryPeerShown
  BY DEF Init, Merged, Shown, EveryPeerShown, Empty
<1>4. QED
  BY <1>1, <1>2, <1>3 DEF IInv

-----------------------------------------------------------------------------
(* Reading one more key keeps a view sound. *)
LEMMA ReadSound ==
  ASSUME Histories, LivesOK, Shown, NEW n \in Node, NEW todo, NEW s, NEW k \in todo,
         Sound(n, todo, s)
  PROVE  LET b == Read([todo |-> todo, samples |-> s], n, k)
         IN  Sound(n, b.todo, b.samples)
<1> DEFINE b == Read([todo |-> todo, samples |-> s], n, k)
           life == Outcomes(n, k, born[n][k] + 1, Len(hist[n][k]))
<1>1. k \in Key /\ Len(hist[n][k]) \in Nat /\ born[n][k] \in Nat
      /\ Len(hist[n][k]) > born[n][k] /\ hist[n][k] \in Seq(Results)
  BY DEF Sound, Keys, Histories
<1>2. life \in Seq(Outcome)
  <2> DEFINE h == hist[n][k]
             c == born[n][k]
  <2>1. h \in Seq(Results) /\ Len(h) \in Nat /\ c \in Nat /\ c < Len(h)
        /\ life = [x \in 1 .. Len(h) - (c + 1) + 1 |-> h[c + 1 + x - 1].out]
    BY <1>1 DEF Outcomes
  <2> HIDE DEF h, c, life
  <2>2. \A i \in 1 .. Len(h) : h[i] \in Results
    BY <2>1
  <2>3. \A i \in 1 .. Len(h) : h[i].out \in Outcome
    BY <2>2 DEF Results
  <2>4. Len(h) - (c + 1) + 1 = Len(h) - c /\ Len(h) - c \in Nat
    BY <2>1
  <2>5. \A x \in 1 .. Len(h) - c : h[c + 1 + x - 1].out \in Outcome
    BY <2>1, <2>3
  <2>6. QED
    BY <2>1, <2>4, <2>5
<1> HIDE DEF life
<1>3. Classify(Snapshot(n, k), Window, Threshold) = Classify(life, Window, Threshold)
  BY <1>2, RetainedSuffice DEF Snapshot, life
<1>4. hist[n][k][Len(hist[n][k])].life = born[n]
  BY <1>1 DEF LivesOK
<1>5. True(n, k, Sample(n, k))
  <2>1. Sample(n, k).state = Classify(life, Window, Threshold)
        /\ Sample(n, k).lastTS = Len(hist[n][k])
    BY <1>3 DEF Sample
  <2>2. Sample(n, k) \in Entries
    BY <1>1, IsState DEF Sample, Entries
  <2>3. QED
    BY <1>1, <1>4, <2>1, <2>2 DEF True, life
<1>6. /\ b.todo = todo \ {k} /\ DOMAIN b.samples = DOMAIN s \cup {k}
      /\ b.samples[k] = Sample(n, k)
      /\ \A x \in DOMAIN s \ {k} : b.samples[x] = s[x]
  BY DEF Read
<1> HIDE DEF b
<1>6a. \A x \in DOMAIN b.samples : hist[n][x][b.samples[x].lastTS].life = born[n]
  <2>1. todo # {}
    OBVIOUS
  <2>2. \A x \in DOMAIN s : hist[n][x][s[x].lastTS].life = born[n]
    BY <2>1 DEF Sound
  <2>3. Sample(n, k).lastTS = Len(hist[n][k])
    BY DEF Sample
  <2>4. QED
    BY <1>4, <1>6, <2>2, <2>3
<1>7. b.todo \subseteq Keys(n) /\ Right(n, b.samples)
  BY <1>1, <1>5, <1>6, <1>6a DEF Sound, Right
<1>8. Carries(n, b.todo, b.samples)
  <2> SUFFICES ASSUME n \in DOMAIN shown, NEW x \in DOMAIN shown[n].samples
               PROVE  IF x \in DOMAIN b.samples
                      THEN b.samples[x].lastTS >= shown[n].samples[x].lastTS
                      ELSE x \in b.todo \/ shown[n].samples[x].lastTS <= born[n][x]
    BY DEF Carries
  <2>1. CASE x = k
    <3>1. shown[n].samples[k].lastTS \in 1 .. Len(hist[n][k])
      BY <2>1 DEF Shown, Right, True
    <3>2. QED
      BY <1>1, <1>6, <2>1, <3>1 DEF Sample
  <2>2. CASE x # k
    BY <1>6, <2>2 DEF Sound, Carries
  <2>3. QED
    BY <2>1, <2>2
<1>9. QED
  BY <1>6a, <1>7, <1>8 DEF Sound, b

-----------------------------------------------------------------------------
(* Histories only grow. *)
Grows ==
  \A n \in Node, k \in Key :
    /\ Len(hist'[n][k]) >= Len(hist[n][k])
    /\ \A i \in 1 .. Len(hist[n][k]) : hist'[n][k][i] = hist[n][k][i]

(* Entries stay right whatever is recorded later. *)
LEMMA RightGrows ==
  ASSUME Histories, Histories', LivesOK, Grows, NEW n \in Node, NEW s, Right(n, s)
  PROVE  Right(n, s)'
<1>0. \A k \in DOMAIN s : hist'[n][k][s[k].lastTS] = hist[n][k][s[k].lastTS]
  BY DEF Right, True, Grows
<1> SUFFICES ASSUME NEW k \in DOMAIN s PROVE True(n, k, s[k])'
  BY <1>0 DEF Right
<1> DEFINE i == s[k].lastTS
           f == hist[n][k][i].life[k] + 1
<1>1. True(n, k, s[k]) /\ k \in Key
  BY DEF Right
<1>2. /\ i \in 1 .. Len(hist[n][k]) /\ Len(hist[n][k]) \in Nat /\ Len(hist'[n][k]) \in Nat
  BY <1>1 DEF True, Histories
<1>3. hist'[n][k][i] = hist[n][k][i] /\ i \in 1 .. Len(hist'[n][k])
  BY <1>1, <1>2 DEF Grows
<1>4. f \in 1 .. i
  BY <1>1, <1>2 DEF LivesOK
<1> HIDE DEF i, f
<1>5. [x \in 1 .. i - f + 1 |-> hist'[n][k][f + x - 1].out] = Outcomes(n, k, f, i)
  <2>1. \A x \in 1 .. i - f + 1 : f + x - 1 \in 1 .. Len(hist[n][k])
    <3> DEFINE L == Len(hist[n][k])
    <3>1. L \in Nat /\ i \in 1 .. L /\ f \in 1 .. i
      BY <1>2, <1>4
    <3> HIDE DEF L
    <3>2. \A x \in 1 .. i - f + 1 : f + x - 1 \in 1 .. L
      BY <3>1
    <3>3. QED
      BY <3>2 DEF L
  <2>2. \A x \in 1 .. i - f + 1 : hist'[n][k][f + x - 1] = hist[n][k][f + x - 1]
    BY <1>1, <2>1 DEF Grows
  <2>3. QED
    BY <2>2 DEF Outcomes
<1>6. QED
  BY <1>1, <1>3, <1>5 DEF True, Outcomes, i, f

(* A view under construction stays sound while results are recorded, and a *)
(* complete one also when its node is restarted.                           *)
LEMMA SoundGrows ==
  ASSUME Histories, Histories', LivesOK, Shown, Grows, UNCHANGED shown,
         NEW n \in Node, \A k \in Key : born'[n][k] >= born[n][k],
         NEW todo, NEW s, Sound(n, todo, s), todo = {} \/ born'[n] = born[n]
  PROVE  Sound(n, todo, s)'
<1>1. Right(n, s)'
  BY RightGrows DEF Sound
<1>2. \A k \in Key : Len(hist[n][k]) \in Nat /\ Len(hist'[n][k]) \in Nat /\ born[n][k] \in Nat
                     /\ born'[n][k] \in Nat
  BY DEF Histories
<1>3. (todo \subseteq Keys(n))'
  BY <1>2 DEF Sound, Keys, Grows
<1>4. Carries(n, todo, s)'
  <2> SUFFICES ASSUME n \in DOMAIN shown, NEW k \in DOMAIN shown[n].samples
               PROVE  IF k \in DOMAIN s THEN s[k].lastTS >= shown[n].samples[k].lastTS
                      ELSE k \in todo \/ shown[n].samples[k].lastTS <= born'[n][k]
    BY DEF Carries
  <2>1. k \in Key /\ shown[n].samples[k].lastTS \in Nat
    BY DEF Shown, Right, True, Entries
  <2>2. QED
    BY <1>2, <2>1 DEF Sound, Carries
<1>5. (todo # {} => \A k \in DOMAIN s : hist[n][k][s[k].lastTS].life = born[n])'
  <2> SUFFICES ASSUME todo # {}, NEW k \in DOMAIN s
               PROVE  hist'[n][k][s[k].lastTS].life = born'[n]
    OBVIOUS
  <2>1. k \in Key /\ s[k].lastTS \in 1 .. Len(hist[n][k])
    BY DEF Sound, Right, True
  <2>2. hist'[n][k][s[k].lastTS] = hist[n][k][s[k].lastTS] /\ born'[n] = born[n]
    BY <2>1 DEF Grows
  <2>3. QED
    BY <2>2 DEF Sound
<1>6. QED
  BY <1>1, <1>3, <1>4, <1>5 DEF Sound

(* A result recorded anywhere, at any point of a call, leaves what has     *)
(* been read so far in order.                                              *)
LEMMA RecordStep ==
  ASSUME IInv, NEW n \in Node, NEW k \in Key, NEW o \in Outcome, Record(n, k, o)
  PROVE  IInv'
<1> USE DEF IInv
<1> DEFINE r == [out |-> o, life |-> born[n]]
<1>1. /\ hist' = [hist EXCEPT ![n][k] = Append(@, r)]
      /\ UNCHANGED <<born, starts, call, local, fetch, mv, shown>>
  BY DEF Record
<1>1a. /\ born[n][k] \in Nat /\ hist[n][k] \in Seq(Results) /\ Len(hist[n][k]) \in Nat
       /\ born[n][k] <= Len(hist[n][k])
  BY DEF Histories
<1>2. r \in Results /\ r.life = born[n]
  BY DEF Results, Histories
<1> HIDE DEF r
<1>3. /\ hist' \in [Node -> [Key -> Seq(Results)]]
      /\ hist'[n][k] = Append(hist[n][k], r)
      /\ \A m \in Node, x \in Key : ~ (m = n /\ x = k) => hist'[m][x] = hist[m][x]
  BY <1>1, <1>2 DEF Histories
<1>3a. /\ Len(hist'[n][k]) = Len(hist[n][k]) + 1
       /\ \A i \in 1 .. Len(hist[n][k]) : hist'[n][k][i] = hist[n][k][i]
       /\ hist'[n][k][Len(hist[n][k]) + 1] = r
  <2> DEFINE h == hist[n][k]
  <2>1. h \in Seq(Results)
    BY <1>1a
  <2>2. hist'[n][k] = Append(h, r)
    BY <1>3
  <2> HIDE DEF h
  <2>3. /\ Len(hist'[n][k]) = Len(h) + 1
        /\ \A i \in 1 .. Len(h) : hist'[n][k][i] = h[i]
        /\ hist'[n][k][Len(h) + 1] = r
    BY <1>2, <2>1, <2>2
  <2>4. QED
    BY <2>3 DEF h
<1>4. Histories'
  <2>1. ASSUME NEW m \in Node, NEW x \in Key
        PROVE  born[m][x] <= Len(hist'[m][x])
    <3>1. CASE m = n /\ x = k
      <4>1. born[n][k] <= Len(hist[n][k]) + 1
        BY <1>1a
      <4>2. QED
        BY <1>3a, <3>1, <4>1
    <3>2. CASE ~ (m = n /\ x = k)
      BY <1>3, <3>2 DEF Histories
    <3>3. QED
      BY <3>1, <3>2
  <2>2. QED
    BY <1>1, <1>3, <2>1 DEF Histories
<1>5. Grows
  <2> SUFFICES ASSUME NEW m \in Node, NEW x \in Key
               PROVE  /\ Len(hist'[m][x]) >= Len(hist[m][x])
                      /\ \A i \in 1 .. Len(hist[m][x]) : hist'[m][x][i] = hist[m][x][i]
    BY DEF Grows
  <2>1. CASE m = n /\ x = k
    BY <1>1a, <1>3a, <2>1
  <2>2. CASE ~ (m = n /\ x = k)
    <3>1. Len(hist[m][x]) \in Nat
      BY DEF Histories
    <3>2. hist'[m][x] = hist[m][x]
      BY <1>3, <2>2
    <3>3. QED
      BY <3>1, <3>2
  <2>3. QED
    BY <2>1, <2>2
<1>6. LivesOK'
  <2> SUFFICES ASSUME NEW m \in Node, NEW x \in Key, NEW i \in 1 .. Len(hist'[m][x])
               PROVE  /\ hist'[m][x][i].life[x] + 1 \in 1 .. i
                      /\ i > born[m][x] => hist'[m][x][i].life = born[m]
    <3>1. born' = born
      BY <1>1
    <3>2. QED
      BY <3>1 DEF LivesOK
  <2>1. CASE m = n /\ x = k /\ i = Len(hist[n][k]) + 1
    <3> DEFINE L == Len(hist[n][k])
               c == born[n][k]
    <3>1. L \in Nat /\ c \in Nat /\ c <= L /\ i = L + 1
      BY <1>1a, <2>1
    <3>2. hist'[m][x][i].life = born[n]
      BY <1>2, <1>3a, <2>1
    <3> HIDE DEF L, c
    <3>3. c + 1 \in 1 .. i
      BY <3>1
    <3>4. QED
      BY <2>1, <3>2, <3>3 DEF c
  <2>2. CASE m = n /\ x = k /\ i # Len(hist[n][k]) + 1
    <3>1. i \in 1 .. Len(hist[n][k]) /\ hist'[m][x][i] = hist[n][k][i]
      BY <1>1a, <1>3a, <2>2
    <3>2. QED
      BY <2>2, <3>1 DEF LivesOK
  <2>3. CASE ~ (m = n /\ x = k)
    <3>1. hist'[m][x] = hist[m][x]
      BY <1>3, <2>3
    <3>2. i \in 1 .. Len(hist[m][x])
      BY <3>1
    <3>3. QED
      BY <3>1, <3>2 DEF LivesOK
  <2>4. QED
    BY <2>1, <2>2, <2>3
<1>7. \A m \in Node : \A x \in Key : born'[m][x] >= born[m][x]
  BY <1>1 DEF Histories
<1>8. Phase' /\ EveryPeerShown'
  BY <1>1 DEF Phase, EveryPeerShown
<1>9. Local' /\ Served'
  <2>1. ASSUME NEW p \in Node, NEW todo, NEW t, Sound(p, todo, t)
        PROVE  Sound(p, todo, t)'
    BY <1>1, <1>4, <1>5, <1>7, <2>1, SoundGrows
  <2>2. Local'
    BY <1>1, <2>1, AggregatorAssumption DEF Local
  <2>3. Served'
    BY <1>1, <2>1, AggregatorAssumption DEF Served
  <2>4. QED
    BY <2>2, <2>3
<1>10. Merged'
  <2>1. ASSUME NEW p \in Node, NEW t, Sound(p, {}, t)
        PROVE  Sound(p, {}, t)'
    BY <1>1, <1>4, <1>5, <1>7, <2>1, SoundGrows
  <2>2. QED
    BY <1>1, <2>1 DEF Merged
<1>11. Shown'
  <2>1. ASSUME NEW p \in Node, NEW t, Right(p, t)
        PROVE  Right(p, t)'
    BY <1>4, <1>5, <2>1, RightGrows
  <2>2. QED
    BY <1>1, <2>1 DEF Shown
<1>12. QED
  BY <1>4, <1>6, <1>8, <1>9, <1>10, <1>11

(* A restart ends a life and leaves what was read of it before in order.   *)
LEMMA RestartStep ==
  ASSUME IInv, NEW n \in Node, Restart(n)
  PROVE  IInv'
<1> USE DEF IInv
<1>1. /\ n # Me /\ starts < MaxStarts /\ starts' = starts + 1
      /\ born' = [born EXCEPT ![n] = [k \in Key |-> Len(hist[n][k])]]
      /\ UNCHANGED <<hist, call, local, mv, shown>>
  BY DEF Restart
<1>2. \A m \in Node, k \in Key : Len(hist[m][k]) \in Nat /\ born[m][k] \in Nat
  BY DEF Histories
<1>3. /\ born' \in [Node -> [Key -> Nat]]
      /\ \A k \in Key : born'[n][k] = Len(hist[n][k])
      /\ \A m \in Node : m # n => born'[m] = born[m]
  BY <1>1, <1>2 DEF Histories
<1>4. Histories'
  <2>1. starts' \in 0 .. MaxStarts
    BY <1>1, AggregatorAssumption DEF Histories
  <2>2. ASSUME NEW m \in Node, NEW k \in Key
        PROVE  born'[m][k] <= Len(hist[m][k])
    <3>1. CASE m = n
      BY <1>2, <1>3, <3>1
    <3>2. CASE m # n
      BY <1>3, <3>2 DEF Histories
    <3>3. QED
      BY <3>1, <3>2
  <2>3. QED
    BY <1>1, <1>3, <2>1, <2>2 DEF Histories
<1>5. LivesOK'
  <2> SUFFICES ASSUME NEW m \in Node, NEW k \in Key, NEW i \in 1 .. Len(hist[m][k])
               PROVE  /\ hist[m][k][i].life[k] + 1 \in 1 .. i
                      /\ i > born'[m][k] => hist[m][k][i].life = born'[m]
    BY <1>1 DEF LivesOK
  <2>1. CASE m = n
    BY <1>2, <1>3, <2>1 DEF LivesOK
  <2>2. CASE m # n
    BY <1>3, <2>2 DEF LivesOK
  <2>3. QED
    BY <2>1, <2>2
<1>6. Grows
  BY <1>1, <1>2 DEF Grows
<1>7. \A m \in Node : \A k \in Key : born'[m][k] >= born[m][k]
  <2> SUFFICES ASSUME NEW m \in Node, NEW k \in Key PROVE born'[m][k] >= born[m][k]
    OBVIOUS
  <2>1. CASE m = n
    BY <1>3, <2>1 DEF Histories
  <2>2. CASE m # n
    BY <1>2, <1>3, <2>2
  <2>3. QED
    BY <2>1, <2>2
<1>8. ASSUME NEW p \in Node, NEW todo, NEW t, Sound(p, todo, t), todo = {} \/ p # n
      PROVE  Sound(p, todo, t)'
  <2>1. todo = {} \/ born'[p] = born[p]
    BY <1>3, <1>8
  <2>2. QED
    BY <1>1, <1>4, <1>6, <1>7, <1>8, <2>1, SoundGrows
<1>9. /\ DOMAIN fetch' = PeersOf[Me]
      /\ \A p \in PeersOf[Me] :
           \/ fetch'[p] = fetch[p] /\ ~ (p = n /\ fetch[p].pc = "serving" /\ fetch[p].view.todo # {})
           \/ fetch[p].pc = "serving" /\ fetch'[p] = [pc |-> "broken"]
  BY DEF Restart
<1>10. Phase' /\ EveryPeerShown'
  <2>1. \A p \in PeersOf[Me] :
          /\ fetch'[p].pc \in {"sent", "serving", "broken", "over"}
          /\ fetch'[p].pc = "over" <=> fetch[p].pc = "over"
    BY <1>9 DEF Phase
  <2>2. QED
    BY <1>1, <1>9, <2>1 DEF Phase, EveryPeerShown
<1>11. Local'
  BY <1>1, <1>8, AggregatorAssumption DEF Local
<1>12. Served'
  <2> SUFFICES ASSUME NEW p \in PeersOf[Me], fetch'[p].pc = "serving"
               PROVE  Sound(p, fetch[p].view.todo, fetch[p].view.samples)' /\ fetch'[p] = fetch[p]
    BY DEF Served
  <2>1. fetch'[p] = fetch[p] /\ (p # n \/ fetch[p].view.todo = {})
    BY <1>9
  <2>2. Sound(p, fetch[p].view.todo, fetch[p].view.samples)
    BY <2>1 DEF Served
  <2>3. QED
    BY <1>8, <2>1, <2>2, AggregatorAssumption
<1>13. Merged'
  BY <1>1, <1>8 DEF Merged
<1>14. Shown'
  <2>1. ASSUME NEW p \in Node, NEW t, Right(p, t)
        PROVE  Right(p, t)'
    BY <1>4, <1>6, <2>1, RightGrows
  <2>2. QED
    BY <1>1, <2>1 DEF Shown
<1>15. QED
  BY <1>4, <1>5, <1>10, <1>11, <1>12, <1>13, <1>14

-----------------------------------------------------------------------------
(* What a step of a call keeps that records nothing and shows nothing.     *)
LEMMA Quiet ==
  ASSUME IInv, UNCHANGED <<hist, born, starts, shown>>
  PROVE  /\ Histories' /\ LivesOK' /\ Shown' /\ EveryPeerShown'
         /\ \A n, todo, s : Sound(n, todo, s) => Sound(n, todo, s)'
<1>1. Histories' /\ LivesOK' /\ EveryPeerShown'
  BY DEF IInv, Histories, LivesOK, EveryPeerShown
<1>2. Shown'
  <2>1. \A n, s : Right(n, s) => Right(n, s)'
    BY DEF Right, True, Outcomes
  <2>2. Shown
    BY DEF IInv
  <2>3. QED
    BY <2>1, <2>2 DEF Shown
<1>3. ASSUME NEW n, NEW todo, NEW s, Sound(n, todo, s)
      PROVE  Sound(n, todo, s)'
  BY <1>3 DEF Sound, Keys, Right, Carries, True, Outcomes
<1>4. QED
  BY <1>1, <1>2, <1>3

(* A local view begins with all keys of the store to be read.              *)
LEMMA StartSound ==
  ASSUME Histories, Shown, NEW n \in Node
  PROVE  Sound(n, Keys(n), Empty)
<1>1. Right(n, Empty)
  BY DEF Right, Empty
<1>2. Carries(n, Keys(n), Empty)
  <2> SUFFICES ASSUME n \in DOMAIN shown, NEW k \in DOMAIN shown[n].samples
               PROVE  k \in Keys(n) \/ shown[n].samples[k].lastTS <= born[n][k]
    BY DEF Carries, Empty
  <2>1. k \in Key /\ shown[n].samples[k].lastTS \in 1 .. Len(hist[n][k])
    BY DEF Shown, Right, True
  <2>2. Len(hist[n][k]) \in Nat /\ born[n][k] \in Nat
    BY <2>1 DEF Histories
  <2>3. QED
    BY <2>1, <2>2 DEF Keys
<1>3. QED
  BY <1>1, <1>2 DEF Sound, Empty

LEMMA LocalStep ==
  ASSUME IInv, Begin \/ (\E k \in Key : ReadLocal(k)) \/ FanOut
  PROVE  IInv'
<1>1. Histories /\ LivesOK /\ Phase /\ Local /\ Served /\ Merged /\ Shown
  BY DEF IInv
<1>2. UNCHANGED <<hist, born, starts, shown>>
  BY DEF Begin, ReadLocal, FanOut
<1>3. /\ Histories' /\ LivesOK' /\ Shown' /\ EveryPeerShown'
      /\ \A n, todo, s : Sound(n, todo, s) => Sound(n, todo, s)'
  BY <1>2, Quiet
<1>5. CASE Begin
  <2>1. /\ call = "idle" /\ call' = "local" /\ UNCHANGED <<fetch, mv>>
        /\ local'.todo = Keys(Me) /\ local'.samples = Empty
    BY <1>5 DEF Begin, Building
  <2>2. Local'
    <3>1. Sound(Me, Keys(Me), Empty)
      BY <1>1, StartSound, AggregatorAssumption
    <3>2. Sound(Me, Keys(Me), Empty)'
      BY <1>2, <3>1 DEF Sound, Keys, Right, Carries, True, Outcomes, Empty
    <3>3. QED
      BY <1>2, <2>1, <3>2 DEF Local, Keys, Empty
  <2>3. Phase' /\ Merged' /\ Served'
    <3>1. mv = Empty /\ \A p \in PeersOf[Me] : fetch[p].pc = "over"
      BY <1>1, <2>1 DEF Phase
    <3>2. Phase'
      BY <1>1, <2>1, <3>1 DEF Phase
    <3>3. Merged' /\ Served'
      BY <2>1, <3>1 DEF Merged, Served, Empty
    <3>4. QED
      BY <3>2, <3>3
  <2>4. QED
    BY <1>3, <2>2, <2>3 DEF IInv
<1>6. ASSUME NEW k \in Key, ReadLocal(k) PROVE IInv'
  <2>1. /\ call = "local" /\ call' = "local" /\ UNCHANGED <<fetch, mv>>
        /\ k \in local.todo /\ local' = Read(local, Me, k)
    BY <1>6 DEF ReadLocal
  <2>2. Sound(Me, local'.todo, local'.samples)
    <3>1. Sound(Me, local.todo, local.samples)
      BY <1>1, <2>1 DEF Local
    <3>2. LET b == Read([todo |-> local.todo, samples |-> local.samples], Me, k)
          IN  Sound(Me, b.todo, b.samples)
      BY <1>1, <2>1, <3>1, ReadSound, AggregatorAssumption
    <3>3. QED
      BY <2>1, <3>2 DEF Read
  <2>3. Local'
    <3>1. PICK todo, s : todo = local'.todo /\ s = local'.samples
      OBVIOUS
    <3>2. Sound(Me, todo, s)'
      BY <1>3, <2>2, <3>1
    <3>3. QED
      BY <2>1, <3>1, <3>2 DEF Local
  <2>4. Phase' /\ Merged' /\ Served'
    <3>1. mv = Empty /\ \A p \in PeersOf[Me] : fetch[p].pc = "over"
      BY <1>1, <2>1 DEF Phase
    <3>2. Phase'
      BY <1>1, <2>1, <3>1 DEF Phase
    <3>3. Merged' /\ Served'
      BY <2>1, <3>1 DEF Merged, Served, Empty
    <3>4. QED
      BY <3>2, <3>3
  <2>5. QED
    BY <1>3, <2>3, <2>4 DEF IInv
<1>7. CASE FanOut
  <2>1. /\ call = "local" /\ local.todo = {} /\ call' = "fetch" /\ local' = NoCall
        /\ fetch' = [p \in PeersOf[Me] |-> [pc |-> "sent"]]
        /\ DOMAIN mv' = {Me} /\ mv'[Me] = View(local.samples)
    BY <1>7 DEF FanOut, Put, Empty
  <2>2. Sound(Me, {}, local.samples)
    BY <1>1, <2>1 DEF Local
  <2>3. Merged'
    <3>1. DOMAIN mv' \subseteq Node
      BY <2>1, AggregatorAssumption
    <3>2. mv'[Me].reachable = TRUE /\ mv'[Me].samples = local.samples
      BY <2>1 DEF View
    <3>3. PICK t : t = local.samples
      OBVIOUS
    <3>4. Sound(Me, {}, t)'
      BY <1>3, <2>2, <3>3
    <3>5. QED
      BY <2>1, <3>1, <3>2, <3>3, <3>4 DEF Merged
  <2>4. Phase' /\ Local' /\ Served'
    BY <2>1 DEF Phase, Local, Served
  <2>5. QED
    BY <1>3, <2>3, <2>4 DEF IInv
<1>8. QED
  BY <1>5, <1>6, <1>7

(* A step of the request to one peer. *)
LEMMA FetchStep ==
  ASSUME IInv, NEW p \in PeersOf[Me],
         Serve(p) \/ Merge(p) \/ Fail(p) \/ (\E k \in Key : ReadRemote(p, k))
  PROVE  IInv'
<1>1. Histories /\ LivesOK /\ Phase /\ Local /\ Served /\ Merged /\ Shown
  BY DEF IInv
<1>2. UNCHANGED <<hist, born, starts, shown, call, local>>
  BY DEF Serve, Merge, Fail, ReadRemote
<1>3. /\ Histories' /\ LivesOK' /\ Shown' /\ EveryPeerShown'
      /\ \A n, todo, s : Sound(n, todo, s) => Sound(n, todo, s)'
  BY <1>2, Quiet
<1>4. p \in Node /\ Me \in Node
  BY AggregatorAssumption
<1>5. Local'
  BY <1>1, <1>2, <1>3 DEF Local
<1>6. fetch[p].pc # "over" /\ call = "fetch" /\ DOMAIN fetch = PeersOf[Me]
  BY <1>1 DEF Serve, Merge, Fail, ReadRemote, Phase
(* The local view of the peer is begun, or another key is read for it.     *)
<1>7. ASSUME NEW todo, NEW s, Sound(p, todo, s), mv' = mv,
             fetch' = [fetch EXCEPT ![p] = [pc |-> "serving", view |-> [todo |-> todo, samples |-> s]]]
      PROVE  IInv'
  <2>1. /\ fetch'[p].pc = "serving"
        /\ fetch'[p].view.todo = todo /\ fetch'[p].view.samples = s
        /\ DOMAIN fetch' = PeersOf[Me]
        /\ \A q \in PeersOf[Me] : q # p => fetch'[q] = fetch[q]
    BY <1>6, <1>7
  <2>2. Served'
    <3> SUFFICES ASSUME NEW q \in PeersOf[Me], fetch'[q].pc = "serving"
                 PROVE  Sound(q, fetch[q].view.todo, fetch[q].view.samples)'
      BY DEF Served
    <3>1. CASE q = p
      BY <1>3, <1>7, <2>1, <3>1
    <3>2. CASE q # p
      <4>1. PICK t, u : t = fetch[q].view.todo /\ u = fetch[q].view.samples
        OBVIOUS
      <4>2. Sound(q, t, u)
        BY <1>1, <2>1, <3>2, <4>1 DEF Served
      <4>3. QED
        BY <1>3, <2>1, <3>2, <4>1, <4>2
    <3>3. QED
      BY <3>1, <3>2
  <2>3. Phase'
    BY <1>1, <1>2, <1>6, <1>7, <2>1 DEF Phase
  <2>4. Merged'
    BY <1>1, <1>3, <1>7 DEF Merged
  <2>5. QED
    BY <1>3, <1>5, <2>2, <2>3, <2>4 DEF IInv
(* The request ends and its answer is merged.                              *)
<1>8. ASSUME NEW v, v = Unreachable \/ (v.reachable = TRUE /\ Sound(p, {}, v.samples)),
             mv' = Put(mv, p, v), fetch' = [fetch EXCEPT ![p] = [pc |-> "over"]]
      PROVE  IInv'
  <2>1. /\ fetch'[p].pc = "over" /\ DOMAIN fetch' = PeersOf[Me]
        /\ \A q \in PeersOf[Me] : q # p => fetch'[q] = fetch[q]
    BY <1>6, <1>8
  <2>2. /\ DOMAIN mv' = DOMAIN mv \cup {p} /\ mv'[p] = v
        /\ \A n \in DOMAIN mv : n # p => mv'[n] = mv[n]
    BY <1>8 DEF Put
  <2>3. Served'
    BY <1>1, <1>3, <2>1 DEF Served
  <2>4. Phase'
    BY <1>1, <1>2, <1>6, <2>1, <2>2 DEF Phase
  <2>5. Merged'
    <3> SUFFICES ASSUME NEW n \in DOMAIN mv'
                 PROVE  \/ mv'[n].reachable = TRUE /\ Sound(n, {}, mv[n].samples)'
                        \/ mv'[n] = Unreachable
      BY <1>1, <1>4, <2>2 DEF Merged
    <3>1. CASE n = p
      BY <1>3, <1>8, <2>2, <3>1
    <3>2. CASE n # p
      BY <1>1, <1>3, <2>2, <3>2 DEF Merged
    <3>3. QED
      BY <3>1, <3>2
  <2>6. QED
    BY <1>3, <1>5, <2>3, <2>4, <2>5 DEF IInv
<1>9. CASE Serve(p)
  <2>1. Sound(p, Keys(p), Empty)
    BY <1>1, <1>4, StartSound
  <2>2. PICK todo, s : todo = Keys(p) /\ s = Empty
    OBVIOUS
  <2>3. QED
    BY <1>7, <1>9, <2>1, <2>2 DEF Serve, Building
<1>10. ASSUME NEW k \in Key, ReadRemote(p, k) PROVE IInv'
  <2> DEFINE b == fetch[p].view
             r == Read([todo |-> b.todo, samples |-> b.samples], p, k)
  <2>1. Sound(p, b.todo, b.samples) /\ k \in b.todo
    BY <1>1, <1>10 DEF Served, ReadRemote
  <2>2. Sound(p, r.todo, r.samples)
    BY <1>1, <1>4, <2>1, ReadSound
  <2>3. Read(b, p, k) = [todo |-> r.todo, samples |-> r.samples]
    BY DEF Read
  <2>4. PICK todo, s : todo = r.todo /\ s = r.samples
    OBVIOUS
  <2>5. mv' = mv /\ fetch' = [fetch EXCEPT ![p] = [pc |-> "serving", view |-> Read(b, p, k)]]
    BY <1>10 DEF ReadRemote
  <2> HIDE DEF b, r
  <2>6. QED
    BY <1>7, <2>2, <2>3, <2>4, <2>5
<1>11. CASE Merge(p)
  <2>1. Sound(p, {}, fetch[p].view.samples)
    BY <1>1, <1>11 DEF Merge, Served
  <2>2. PICK v : v = View(fetch[p].view.samples)
    OBVIOUS
  <2>3. v.reachable = TRUE /\ v.samples = fetch[p].view.samples
    BY <2>2 DEF View
  <2>4. QED
    BY <1>8, <1>11, <2>1, <2>2, <2>3 DEF Merge
<1>12. CASE Fail(p)
  <2>1. PICK v : v = Unreachable
    OBVIOUS
  <2>2. mv' = Put(mv, p, v) /\ fetch' = [fetch EXCEPT ![p] = [pc |-> "over"]]
    BY <1>12, <2>1 DEF Fail
  <2>3. v = Unreachable \/ (v.reachable = TRUE /\ Sound(p, {}, v.samples))
    BY <2>1
  <2>4. QED
    BY <1>8, <2>2, <2>3
<1>13. QED
  BY <1>9, <1>10, <1>11, <1>12

(* The merged view is shown: it has an entry for every peer. *)
LEMMA ReturnStep ==
  ASSUME IInv, Return
  PROVE  IInv'
<1>1. Histories /\ LivesOK /\ Phase /\ Local /\ Served /\ Merged /\ Shown
  BY DEF IInv
<1>2. /\ call = "fetch" /\ call' = "idle" /\ shown' = mv /\ mv' = Empty
      /\ \A p \in PeersOf[Me] : fetch[p].pc = "over"
      /\ UNCHANGED <<hist, born, starts, local, fetch>>
  BY DEF Return
<1>3. Histories' /\ LivesOK'
  BY <1>1, <1>2 DEF Histories, LivesOK
<1>4. Phase' /\ Local' /\ Served' /\ Merged'
  BY <1>1, <1>2 DEF Phase, Local, Served, Merged, Empty
<1>5. EveryPeerShown'
  BY <1>1, <1>2 DEF Phase, EveryPeerShown
<1>6. Shown'
  <2>1. \A n \in DOMAIN mv : mv[n].reachable \in BOOLEAN /\ Right(n, mv[n].samples)
    <3> SUFFICES ASSUME NEW n \in DOMAIN mv
                 PROVE  mv[n].reachable \in BOOLEAN /\ Right(n, mv[n].samples)
      OBVIOUS
    <3>1. CASE mv[n] = Unreachable
      BY <3>1 DEF Unreachable, Right, Empty
    <3>2. CASE mv[n].reachable = TRUE /\ Sound(n, {}, mv[n].samples)
      BY <3>2 DEF Sound
    <3>3. QED
      BY <1>1, <3>1, <3>2 DEF Merged
  <2>2. \A n, s : Right(n, s) => Right(n, s)'
    BY <1>2 DEF Right, True, Outcomes
  <2>3. QED
    BY <1>1, <1>2, <2>1, <2>2 DEF Shown, Merged
<1>7. QED
  BY <1>3, <1>4, <1>5, <1>6 DEF IInv

LEMMA Invariance == Spec => []IInv
<1>1. IInv /\ [Next]_aggVars => IInv'
  <2> SUFFICES ASSUME IInv, [Next]_aggVars PROVE IInv'
    OBVIOUS
  <2>1. ASSUME NEW n \in Node, NEW k \in Key, NEW o \in Outcome, Record(n, k, o)
        PROVE  IInv'
    BY <2>1, RecordStep
  <2>2. ASSUME NEW n \in Node, Restart(n) PROVE IInv'
    BY <2>2, RestartStep
  <2>3. CASE Begin \/ FanOut \/ (\E k \in Key : ReadLocal(k))
    BY <2>3, LocalStep
  <2>4. CASE Return
    BY <2>4, ReturnStep
  <2>5. ASSUME NEW p \in PeersOf[Me],
               Serve(p) \/ Merge(p) \/ Fail(p) \/ (\E k \in Key : ReadRemote(p, k))
        PROVE  IInv'
    BY <2>5, FetchStep
  <2>6. CASE UNCHANGED aggVars
    <3>1. /\ UNCHANGED <<hist, born, starts, shown>>
          /\ UNCHANGED <<call, local, fetch, mv>>
      BY <2>6 DEF aggVars
    <3>2. /\ Histories' /\ LivesOK' /\ Shown' /\ EveryPeerShown'
          /\ \A n, todo, s : Sound(n, todo, s) => Sound(n, todo, s)'
      BY <3>1, Quiet
    <3>3. Phase'
      BY <3>1 DEF IInv, Phase
    <3>4. Local' /\ Served' /\ Merged'
      BY <3>1, <3>2 DEF IInv, Local, Served, Merged
    <3>5. QED
      BY <3>2, <3>3, <3>4 DEF IInv
  <2>7. QED
    BY <2>1, <2>2, <2>3, <2>4, <2>5, <2>6 DEF Next
<1>2. QED
  BY InitHolds, <1>1, PTL DEF Spec

-----------------------------------------------------------------------------
(* No view of the aggregator has an entry that is newer than what its      *)
(* observer has recorded, for any mesh and any history.                    *)
THEOREM TypeCorrect == Spec => []TypeOK
<1>1. IInv => TypeOK
  <2> SUFFICES ASSUME IInv PROVE TypeOK
    OBVIOUS
  <2>1. Histories /\ Phase /\ Local /\ Served /\ Merged /\ Shown
    BY DEF IInv
  <2>2. \A n \in Node, k \in Key : Len(hist[n][k]) \in Nat
    BY <2>1 DEF Histories
  <2>3. ASSUME NEW n \in Node, NEW s, Right(n, s) PROVE IsSamples(n, s)
    BY <2>2, <2>3 DEF IsSamples, Right, True
  <2>4. ASSUME NEW n \in Node, NEW b, Sound(n, b.todo, b.samples) PROVE IsBuilder(n, b)
    BY <2>3, <2>4 DEF IsBuilder, Sound, Keys
  <2>5. IsBuilder(Me, local)
    <3>1. CASE local = NoCall
      BY <3>1 DEF IsBuilder, IsSamples, NoCall, Empty
    <3>2. CASE local # NoCall
      BY <2>1, <2>4, <3>2, AggregatorAssumption DEF Local
    <3>3. QED
      BY <3>1, <3>2
  <2>6. \A p \in PeersOf[Me] : fetch[p].pc = "serving" => IsBuilder(p, fetch[p].view)
    BY <2>1, <2>4, AggregatorAssumption DEF Served
  <2>7. IsMesh(mv)
    <3> SUFFICES ASSUME NEW n \in DOMAIN mv
                 PROVE  mv[n].reachable \in BOOLEAN /\ IsSamples(n, mv[n].samples)
      BY <2>1 DEF IsMesh, Merged
    <3>1. n \in Node
      BY <2>1 DEF Merged
    <3>2. CASE mv[n] = Unreachable
      BY <3>2 DEF Unreachable, IsSamples, Empty
    <3>3. CASE mv[n].reachable = TRUE /\ Sound(n, {}, mv[n].samples)
      BY <2>3, <3>1, <3>3 DEF Sound
    <3>4. QED
      BY <2>1, <3>2, <3>3 DEF Merged
  <2>8. IsMesh(shown)
    BY <2>1, <2>3 DEF IsMesh, Shown
  <2>9. QED
    BY <2>1, <2>5, <2>6, <2>7, <2>8 DEF TypeOK, Histories, Phase
<1>2. QED
  BY Invariance, <1>1, PTL

(* Each entry of each view that Aggregate returns is the classification of *)
(* results that its observer really recorded, up to the one the timestamp  *)
(* names: localView takes state and timestamp from one snapshot, and the   *)
(* window is not wider than the store.  And all entries of an observer are *)
(* of one life of it: what a restart breaks off is never completed.        *)
THEOREM ViewsConsistent == Spec => []EntriesConsistent
<1>1. IInv => EntriesConsistent
  BY DEF IInv, Shown, Right, True, EntriesConsistent
<1>2. QED
  BY Invariance, <1>1, PTL

(* Aggregate returns an entry for the node itself and for every peer of    *)
(* its configuration, those included that did not answer.                  *)
THEOREM AllShown == Spec => []EveryPeerShown
<1>1. IInv => EveryPeerShown
  BY DEF IInv
<1>2. QED
  BY Invariance, <1>1, PTL

(* From one returned view to the next an observer does not go back to an   *)
(* older result, and loses only what its restart made it forget.           *)
THEOREM NeverStepsBack == Spec => NoStepBack
<1> DEFINE Ahead ==
  \A n \in DOMAIN shown \cap DOMAIN shown' :
    (shown[n].reachable /\ (shown[n].reachable)') =>
      \A k \in DOMAIN shown[n].samples :
        LET ts == shown[n].samples[k].lastTS
        IN  IF k \in DOMAIN shown'[n].samples
            THEN shown'[n].samples[k].lastTS >= ts
            ELSE ts <= born[n][k]
<1>1. IInv /\ [Next]_aggVars => [Ahead]_aggVars
  <2> SUFFICES ASSUME IInv, [Next]_aggVars PROVE Ahead
    OBVIOUS
  <2>1. Merged /\ Shown
    BY DEF IInv
  <2>2. CASE Return
    <3> SUFFICES ASSUME NEW n \in DOMAIN shown, n \in DOMAIN mv, mv[n].reachable,
                        NEW k \in DOMAIN shown[n].samples
                 PROVE  IF k \in DOMAIN mv[n].samples
                        THEN mv[n].samples[k].lastTS >= shown[n].samples[k].lastTS
                        ELSE shown[n].samples[k].lastTS <= born[n][k]
      BY <2>2 DEF Return
    <3>1. mv[n] # Unreachable
      BY DEF Unreachable
    <3>2. Carries(n, {}, mv[n].samples)
      BY <2>1, <3>1 DEF Merged, Sound
    <3>3. QED
      BY <3>2 DEF Carries
  <2>3. CASE UNCHANGED shown
    <3>1. \A n \in DOMAIN shown : \A k \in DOMAIN shown[n].samples :
            shown[n].samples[k].lastTS \in Nat
      BY <2>1 DEF Shown, Right, True, Entries
    <3>2. QED
      BY <2>3, <3>1
  <2>4. Return \/ UNCHANGED shown
    BY DEF Next, aggVars, Record, Restart, Begin, ReadLocal, FanOut, Serve, ReadRemote,
           Merge, Fail
  <2>5. QED
    BY <2>2, <2>3, <2>4
<1>2. QED
  BY Invariance, <1>1, PTL DEF Spec, NoStepBack
=============================================================================
