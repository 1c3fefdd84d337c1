---------------------------- MODULE StoreProofs ----------------------------
(***************************************************************************)
(* Theorems about Store, for every set of keys, every set of results and   *)
(* every capacity: a ring never exposes an unwritten slot, and what        *)
(* Snapshot returns is exactly the log of the last Cap results.            *)
(***************************************************************************)
EXTENDS Store, TLAPS

(* New never builds a store with an empty ring. *)
LEMMA CapPositive == Cap \in Nat /\ Cap >= 1
  BY CapacityAssumption DEF Cap

(* The index arithmetic of push: the write position steps by one and       *)
(* returns to slot 0 after the last one.                                   *)
LEMMA NextHead ==
  ASSUME NEW h \in Slot
  PROVE  (h + 1) % Cap = IF h + 1 = Cap THEN 0 ELSE h + 1
<1>1. h \in Int /\ 0 <= h /\ h < Cap
  BY CapPositive DEF Slot
<1>2. CASE h + 1 = Cap
  BY <1>1, <1>2, CapPositive
<1>3. CASE h + 1 < Cap
  BY <1>1, <1>3, CapPositive
<1>4. QED
  BY <1>1, <1>2, <1>3, CapPositive

(* push keeps a ring well formed. *)
LEMMA PushRing ==
  ASSUME NEW r \in Ring, NEW v \in Result
  PROVE  push(r, v) \in Ring
<1>1. r.head \in Slot /\ (r.head + 1) % Cap \in Slot
  BY NextHead, CapPositive DEF Ring, Slot
<1>2. QED
  BY <1>1 DEF Ring, push

(* What the copies of snapshot produce: a sequence of head entries before  *)
(* the ring wrapped, of Cap entries afterwards.                            *)
LEMMA SnapshotSeq ==
  ASSUME NEW r \in Ring
  PROVE  /\ snapshot(r) \in Seq(Result \cup {ZeroResult})
         /\ Len(snapshot(r)) = IF r.full THEN Cap ELSE r.head
<1>1. r.head \in 0 .. Cap - 1 /\ r.buf \in [0 .. Cap - 1 -> Result \cup {ZeroResult}]
  BY DEF Ring, Slot
<1>2. CASE ~ r.full
  <2>1. snapshot(r) = [i \in 1 .. r.head |-> r.buf[i - 1]]
    BY <1>2 DEF snapshot
  <2>2. \A i \in 1 .. r.head : r.buf[i - 1] \in Result \cup {ZeroResult}
    BY <1>1, CapPositive
  <2>3. QED
    BY <1>1, <1>2, <2>1, <2>2, CapPositive
<1>3. CASE r.full
  <2> DEFINE entry(i) == IF i <= Cap - r.head THEN r.buf[r.head + i - 1]
                                              ELSE r.buf[i - 1 - (Cap - r.head)]
  <2>1. snapshot(r) = [i \in 1 .. Cap |-> entry(i)]
    BY <1>3 DEF snapshot
  <2>2. \A i \in 1 .. Cap : entry(i) \in Result \cup {ZeroResult}
    BY <1>1, CapPositive
  <2> HIDE DEF entry
  <2>3. QED
    BY <1>3, <2>1, <2>2, CapPositive
<1>4. QED
  BY <1>2, <1>3 DEF Ring

(* One push is one Recorded of the abstract log: it appends while the ring *)
(* fills and afterwards drops exactly the oldest result.                   *)
LEMMA PushSnapshot ==
  ASSUME NEW r \in Ring, NEW v \in Result
  PROVE  snapshot(push(r, v)) = Log!Recorded(snapshot(r), v)
<1> DEFINE s == snapshot(r)
           p == push(r, v)
           t == Append(s, v)
<1>1. r.head \in 0 .. Cap - 1 /\ r.buf \in [0 .. Cap - 1 -> Result \cup {ZeroResult}]
      /\ r.full \in BOOLEAN
  BY DEF Ring, Slot
<1>2. /\ s \in Seq(Result \cup {ZeroResult})
      /\ Len(s) = IF r.full THEN Cap ELSE r.head
  BY SnapshotSeq
<1>3. /\ p.buf = [r.buf EXCEPT ![r.head] = v]
      /\ p.head = IF r.head + 1 = Cap THEN 0 ELSE r.head + 1
      /\ p.full = (r.full \/ r.head + 1 = Cap)
  BY <1>1, NextHead, CapPositive DEF push, Slot
<1>4. /\ t \in Seq(Result \cup {ZeroResult})
      /\ Len(t) = Len(s) + 1
      /\ \A i \in 1 .. Len(s) : t[i] = s[i]
      /\ t[Len(s) + 1] = v
  BY <1>2
<1>5. p \in Ring
  BY PushRing
<1>6. snapshot(p) \in Seq(Result \cup {ZeroResult})
      /\ Len(snapshot(p)) = IF p.full THEN Cap ELSE p.head
  BY <1>5, SnapshotSeq
<1> SUFFICES snapshot(p) = Log!Recorded(s, v)
  OBVIOUS
<1>6a. /\ snapshot(r) = s
      /\ t = Append(s, v)
  OBVIOUS
<1> HIDE DEF s, p, t
<1>7. CASE ~ r.full
  <2>1. \A i \in 1 .. r.head : s[i] = r.buf[i - 1]
    BY <1>7, <1>1, <1>6a DEF snapshot
  <2>2. Log!Recorded(s, v) = t
    BY <1>1, <1>2, <1>7, <1>6a, CapPositive DEF Log!Recorded
  <2> DEFINE Filled == /\ Len(snapshot(p)) = r.head + 1
                             /\ \A i \in 1 .. r.head + 1 : snapshot(p)[i] = p.buf[i - 1]
  <2>a. ASSUME r.head + 1 = Cap PROVE Filled
    <3>1. p.full /\ p.head = 0
      BY <1>3, <2>a
    <3>2. \A i \in 1 .. r.head + 1 : i <= Cap - 0 /\ 0 + i - 1 = i - 1
      BY <1>1, <2>a, CapPositive
    <3>3. QED
      BY <1>6, <2>a, <3>1, <3>2 DEF snapshot
  <2>b. ASSUME r.head + 1 # Cap PROVE Filled
    <3>1. ~ p.full /\ p.head = r.head + 1
      BY <1>3, <1>7, <2>b
    <3>2. QED
      BY <1>6, <3>1 DEF snapshot
  <2>3. Len(snapshot(p)) = r.head + 1
    BY <2>a, <2>b
  <2>4. \A i \in 1 .. r.head + 1 : snapshot(p)[i] = p.buf[i - 1]
    BY <2>a, <2>b
  <2>5. \A i \in 1 .. r.head + 1 : snapshot(p)[i] = t[i]
    <3> SUFFICES ASSUME NEW i \in 1 .. r.head + 1
                 PROVE  snapshot(p)[i] = t[i]
      OBVIOUS
    <3>1. snapshot(p)[i] = p.buf[i - 1]
      BY <2>4
    <3>2. CASE i = r.head + 1
      <4>1. p.buf[r.head] = v /\ i - 1 = r.head
        <5>1. r.head \in DOMAIN r.buf
          BY <1>1
        <5>2. i - 1 = r.head
          BY <1>1, <3>2
        <5>3. QED
          BY <1>3, <5>1, <5>2
      <4>2. t[i] = v
        BY <1>2, <1>4, <1>7, <3>2
      <4>3. QED
        BY <3>1, <4>1, <4>2
    <3>3. CASE i \in 1 .. r.head
      <4>1. p.buf[i - 1] = r.buf[i - 1]
        BY <1>1, <1>3, <3>3
      <4>2. t[i] = s[i]
        BY <1>2, <1>4, <1>7, <3>3
      <4>3. QED
        BY <2>1, <3>1, <3>3, <4>1, <4>2
    <3>4. i = r.head + 1 \/ i \in 1 .. r.head
      BY <1>1
    <3>5. QED
      BY <3>2, <3>3, <3>4
  <2>6. Len(t) = r.head + 1
    BY <1>2, <1>4, <1>7
  <2>7. /\ snapshot(p) = [i \in 1 .. r.head + 1 |-> snapshot(p)[i]]
        /\ t = [i \in 1 .. r.head + 1 |-> t[i]]
    BY <1>4, <1>6, <2>3, <2>6
  <2>8. QED
    BY <2>2, <2>5, <2>7
<1>8. CASE r.full
  <2>1. \A i \in 1 .. Cap : s[i] = IF i <= Cap - r.head THEN r.buf[r.head + i - 1]
                                    ELSE r.buf[i - 1 - (Cap - r.head)]
    BY <1>8, <1>6a, CapPositive DEF snapshot
  <2>2. Log!Recorded(s, v) = SubSeq(t, 2, Cap + 1)
    BY <1>2, <1>4, <1>8, <1>6a, CapPositive DEF Log!Recorded, Log!LastN
  <2>3. SubSeq(t, 2, Cap + 1) = [i \in 1 .. Cap |-> t[i + 1]]
    BY <1>2, <1>4, <1>8, CapPositive
  <2>4. \A i \in 1 .. Cap : snapshot(p)[i] =
             IF i <= Cap - p.head THEN p.buf[p.head + i - 1]
                                  ELSE p.buf[i - 1 - (Cap - p.head)]
    BY <1>3, <1>8, CapPositive DEF snapshot
  <2>5. \A i \in 1 .. Cap : snapshot(p)[i] = t[i + 1]
    <3> SUFFICES ASSUME NEW i \in 1 .. Cap
                 PROVE  snapshot(p)[i] = t[i + 1]
      OBVIOUS
    <3>1. CASE i = Cap
      BY <1>1, <1>2, <1>3, <1>4, <1>8, <2>4, <3>1, CapPositive
    <3>2. CASE i < Cap
      <4>1. t[i + 1] = s[i + 1] /\ i + 1 \in 1 .. Cap
        BY <1>2, <1>4, <1>8, <3>2, CapPositive
      <4>2. CASE r.head + 1 = Cap
        <5>1. snapshot(p)[i] = p.buf[i - 1]
          BY <1>3, <2>4, <4>2, CapPositive
        <5>2. p.buf[i - 1] = r.buf[i - 1]
          BY <1>1, <1>3, <3>2, <4>2, CapPositive
        <5>3. s[i + 1] = r.buf[i - 1]
          <6>1. ~ (i + 1 <= Cap - r.head) /\ (i + 1) - 1 - (Cap - r.head) = i - 1
            BY <1>1, <4>2, CapPositive
          <6>2. QED
            BY <2>1, <4>1, <6>1
        <5>4. QED
          BY <4>1, <5>1, <5>2, <5>3
      <4>3. CASE r.head + 1 # Cap
        <5>1. CASE i + 1 <= Cap - r.head
          <6>1. snapshot(p)[i] = p.buf[r.head + i]
            <7>1. i <= Cap - p.head /\ p.head + i - 1 = r.head + i
              BY <1>1, <1>3, <4>3, <5>1, CapPositive
            <7>2. QED
              BY <2>4, <7>1
          <6>2. p.buf[r.head + i] = r.buf[r.head + i]
            BY <1>1, <1>3, <5>1, CapPositive
          <6>3. s[i + 1] = r.buf[r.head + i]
            <7>1. r.head + (i + 1) - 1 = r.head + i
              BY <1>1, CapPositive
            <7>2. QED
              BY <2>1, <4>1, <5>1, <7>1
          <6>4. QED
            BY <4>1, <6>1, <6>2, <6>3
        <5>2. CASE ~ (i + 1 <= Cap - r.head)
          <6> DEFINE j == i - (Cap - r.head)
          <6>1. j \in 0 .. Cap - 1 /\ j # r.head
            BY <1>1, <3>2, <5>2, CapPositive
          <6>2. snapshot(p)[i] = p.buf[j]
            <7>1. ~ (i <= Cap - p.head) /\ i - 1 - (Cap - p.head) = j
              BY <1>1, <1>3, <4>3, <5>2, CapPositive
            <7>2. QED
              BY <2>4, <7>1
          <6>3. p.buf[j] = r.buf[j]
            BY <1>1, <1>3, <6>1
          <6>4. s[i + 1] = r.buf[j]
            <7>1. (i + 1) - 1 - (Cap - r.head) = j
              BY <1>1, CapPositive
            <7>2. QED
              BY <2>1, <4>1, <5>2, <7>1
          <6>5. QED
            BY <4>1, <6>2, <6>3, <6>4
        <5>3. QED
          BY <5>1, <5>2
      <4>4. QED
        BY <4>2, <4>3
    <3>3. i = Cap \/ i < Cap
      BY CapPositive
    <3>4. QED
      BY <3>1, <3>2, <3>3
  <2>6. Len(snapshot(p)) = Cap
    BY <1>3, <1>6, <1>8
  <2>7. snapshot(p) = [i \in 1 .. Cap |-> snapshot(p)[i]]
    BY <1>6, <2>6
  <2>8. QED
    BY <2>2, <2>3, <2>5, <2>7
<1>9. QED
  BY <1>1, <1>7, <1>8

-----------------------------------------------------------------------------
(* A ring that holds at least one result and whose readable slots have all *)
(* been written.                                                           *)
Written(r) ==
  /\ r.full \/ r.head > 0
  /\ \A i \in Slot : (r.full \/ i < r.head) => r.buf[i] \in Result

(* The inductive invariant: well-formed rings, all of them written up to   *)
(* the point that snapshot reads.                                          *)
IInv == TypeOK /\ \A k \in DOMAIN bufs : Written(bufs[k])

(* A pushed ring is written, whether it was or was just allocated.         *)
LEMMA PushWritten ==
  ASSUME NEW r \in Ring, NEW v \in Result, r = newRing \/ Written(r)
  PROVE  Written(push(r, v))
<1> DEFINE p == push(r, v)
<1>1. r.head \in 0 .. Cap - 1 /\ r.buf \in [0 .. Cap - 1 -> Result \cup {ZeroResult}]
  BY DEF Ring, Slot
<1>2. /\ p.buf = [r.buf EXCEPT ![r.head] = v]
      /\ p.head = IF r.head + 1 = Cap THEN 0 ELSE r.head + 1
      /\ p.full = (r.full \/ p.head = 0)
  BY <1>1, NextHead, CapPositive DEF push, Slot
<1>3. \A i \in Slot : (r.full \/ i < r.head) => r.buf[i] \in Result
  BY <1>1 DEF Written, newRing, Slot
<1> HIDE DEF p
<1>4. p.full \/ p.head > 0
  <2>1. CASE p.head = 0
    <3>1. p.full
      BY <1>2, <2>1, Zenon
    <3>2. QED
      BY <3>1
  <2>2. CASE p.head # 0
    <3>1. p.head > 0
      BY <1>1, <1>2, <2>2
    <3>2. QED
      BY <3>1
  <2>3. QED
    BY <2>1, <2>2
<1>5. ASSUME NEW i \in Slot, p.full \/ i < p.head
      PROVE  p.buf[i] \in Result
  <2>1. CASE i = r.head
    BY <1>1, <1>2, <2>1 DEF Slot
  <2>2. CASE i # r.head
    <3>1. r.full \/ i < r.head
      <4>1. CASE r.full
        BY <4>1
      <4>2. CASE ~ r.full /\ r.head + 1 = Cap
        BY <1>1, <2>2, <4>2, CapPositive DEF Slot
      <4>3. CASE ~ r.full /\ r.head + 1 # Cap
        <5>1. p.head = r.head + 1 /\ p.head # 0
          BY <1>1, <1>2, <4>3
        <5>2. ~ p.full
          BY <1>2, <4>3, <5>1, Zenon
        <5>3. i < r.head + 1
          BY <1>5, <5>1, <5>2, Zenon
        <5>4. QED
          BY <1>1, <2>2, <5>3 DEF Slot
      <4>4. QED
        BY <4>1, <4>2, <4>3
    <3>2. p.buf[i] = r.buf[i]
      BY <1>1, <1>2, <2>2 DEF Slot
    <3>3. QED
      BY <1>3, <3>1, <3>2
  <2>3. QED
    BY <2>1, <2>2
<1>6. QED
  BY <1>4, <1>5 DEF Written, p

(* What one Append leaves behind, for the key appended to and the others.  *)
LEMMA AppendEffect ==
  ASSUME IInv, NEW k \in Key, NEW v \in Result, AppendResult(k, v)
  PROVE  /\ DOMAIN bufs' = DOMAIN bufs \cup {k}
         /\ \A x \in DOMAIN bufs \ {k} : bufs'[x] = bufs[x]
         /\ \E r \in Ring : /\ r = newRing \/ Written(r)
                           /\ bufs'[k] = push(r, v)
                           /\ snapshot(r) = Snapshot(k)
<1> DEFINE old == IF k \in DOMAIN bufs THEN bufs[k] ELSE newRing
<1>1. newRing \in Ring
  BY CapPositive DEF newRing, Ring, Slot
<1>2. old \in Ring /\ (old = newRing \/ Written(old))
  BY <1>1 DEF IInv, TypeOK
<1>3. snapshot(newRing) = <<>>
  BY CapPositive DEF snapshot, newRing
<1>4. snapshot(old) = Snapshot(k)
  BY <1>3 DEF Snapshot
<1>5. bufs' = [x \in DOMAIN bufs \cup {k} |-> IF x # k THEN bufs[x] ELSE push(old, v)]
  BY DEF AppendResult
<1> HIDE DEF old
<1>6. bufs'[k] = push(old, v)
  BY <1>5
<1>7. /\ DOMAIN bufs' = DOMAIN bufs \cup {k}
      /\ \A x \in DOMAIN bufs \ {k} : bufs'[x] = bufs[x]
  BY <1>5
<1>8. \E r \in Ring : /\ r = newRing \/ Written(r)
                     /\ bufs'[k] = push(r, v)
                     /\ snapshot(r) = Snapshot(k)
  BY <1>2, <1>4, <1>6, Zenon
<1>9. QED
  BY <1>7, <1>8

(* The rings stay well formed and written: IInv is an invariant of Spec.   *)
LEMMA Invariance == Spec => []IInv
<1>1. Init => IInv
  BY DEF Init, IInv, TypeOK
<1>2. IInv /\ [Next]_bufs => IInv'
  <2> SUFFICES ASSUME IInv, [Next]_bufs
               PROVE  IInv'
    OBVIOUS
  <2>1. ASSUME NEW k \in Key, NEW v \in Result, AppendResult(k, v)
        PROVE  IInv'
    <3>1. /\ DOMAIN bufs' = DOMAIN bufs \cup {k}
          /\ \A x \in DOMAIN bufs \ {k} : bufs'[x] = bufs[x]
      BY <2>1, AppendEffect
    <3>2. bufs'[k] \in Ring /\ Written(bufs'[k])
      <4>1. PICK r \in Ring : (r = newRing \/ Written(r)) /\ bufs'[k] = push(r, v)
        BY <2>1, AppendEffect, Zenon
      <4>2. QED
        BY <4>1, PushRing, PushWritten
    <3>3. bufs' = [x \in DOMAIN bufs' |-> bufs'[x]]
      BY <2>1 DEF AppendResult
    <3>4. \A x \in DOMAIN bufs' : bufs'[x] \in Ring /\ Written(bufs'[x])
      BY <3>1, <3>2 DEF IInv, TypeOK
    <3>5. DOMAIN bufs' \in SUBSET Key
      BY <3>1 DEF IInv, TypeOK
    <3>6. bufs' \in [DOMAIN bufs' -> Ring]
      BY <3>3, <3>4
    <3>7. TypeOK'
      BY <3>5, <3>6 DEF TypeOK
    <3>8. (\A x \in DOMAIN bufs : Written(bufs[x]))'
      BY <3>4 DEF Written, Slot
    <3>9. QED
      BY <3>7, <3>8 DEF IInv
  <2>2. CASE UNCHANGED bufs
    BY <2>2 DEF IInv, TypeOK
  <2>3. QED
    BY <2>1, <2>2 DEF Next
<1>3. QED
  BY <1>1, <1>2, PTL DEF Spec

(* Type correctness: every key of the store always maps to a ring of the   *)
(* configured capacity.                                                    *)
THEOREM TypeCorrect == Spec => []TypeOK
<1>1. IInv => TypeOK
  BY DEF IInv
<1>2. QED
  BY Invariance, <1>1, PTL

(* What a written ring hands out: at least one entry, all of them results. *)
LEMMA WrittenSnapshot ==
  ASSUME NEW r \in Ring, Written(r)
  PROVE  /\ Len(snapshot(r)) > 0
         /\ \A i \in 1 .. Len(snapshot(r)) : snapshot(r)[i] \in Result
<1>1. r.head \in 0 .. Cap - 1 /\ Len(snapshot(r)) = IF r.full THEN Cap ELSE r.head
  BY SnapshotSeq DEF Ring, Slot
<1>2. r.full \/ r.head > 0
  BY DEF Written
<1>3. \A i \in 0 .. Cap - 1 : (r.full \/ i < r.head) => r.buf[i] \in Result
  BY DEF Written, Slot
<1>4. CASE ~ r.full
  <2>1. snapshot(r) = [i \in 1 .. r.head |-> r.buf[i - 1]]
    BY <1>4 DEF snapshot
  <2>2. \A i \in 1 .. r.head : r.buf[i - 1] \in Result
    <3> SUFFICES ASSUME NEW i \in 1 .. r.head
                 PROVE  r.buf[i - 1] \in Result
      OBVIOUS
    <3>1. i - 1 \in 0 .. Cap - 1 /\ i - 1 < r.head
      BY <1>1, CapPositive
    <3>2. QED
      BY <1>3, <3>1
  <2>3. QED
    BY <1>1, <1>2, <1>4, <2>1, <2>2
<1>5. CASE r.full
  <2> DEFINE entry(i) == IF i <= Cap - r.head THEN r.buf[r.head + i - 1]
                                              ELSE r.buf[i - 1 - (Cap - r.head)]
  <2>1. snapshot(r) = [i \in 1 .. Cap |-> entry(i)]
    BY <1>5 DEF snapshot
  <2>2. \A i \in 1 .. Cap : entry(i) \in Result
    BY <1>1, <1>3, <1>5, CapPositive
  <2> HIDE DEF entry
  <2>3. QED
    BY <1>1, <1>5, <2>1, <2>2, CapPositive
<1>6. QED
  BY <1>4, <1>5

(* Snapshot never returns a slot that no Append wrote, and a key listed by *)
(* Keys is never empty.                                                    *)
THEOREM ReadsOnlyWritten == Spec => []SnapshotOnlyWritten
<1>1. IInv => SnapshotOnlyWritten
  <2> SUFFICES ASSUME IInv, NEW k \in DOMAIN bufs
               PROVE  /\ Len(Snapshot(k)) > 0
                      /\ \A i \in 1 .. Len(Snapshot(k)) : Snapshot(k)[i] \in Result
    BY DEF SnapshotOnlyWritten, Keys
  <2>1. bufs[k] \in Ring /\ Written(bufs[k]) /\ Snapshot(k) = snapshot(bufs[k])
    BY DEF IInv, TypeOK, Snapshot
  <2>2. QED
    BY <2>1, WrittenSnapshot
<1>2. QED
  BY Invariance, <1>1, PTL

(* What readers see of one Append: one more result of its key, recorded as *)
(* the log records it, and of the other keys nothing.                      *)
LEMMA AppendRecords ==
  ASSUME IInv, NEW k \in Key, NEW v \in Result, AppendResult(k, v)
  PROVE  /\ Snapshot(k)' = Log!Recorded(Snapshot(k), v)
         /\ \A x \in Key \ {k} : Snapshot(x)' = Snapshot(x)
         /\ Keys' = Keys \cup {k}
<1>1. /\ DOMAIN bufs' = DOMAIN bufs \cup {k}
      /\ \A x \in DOMAIN bufs \ {k} : bufs'[x] = bufs[x]
  BY AppendEffect
<1>2. PICK r \in Ring : bufs'[k] = push(r, v) /\ snapshot(r) = Snapshot(k)
  BY AppendEffect, Zenon
<1>3. Snapshot(k)' = Log!Recorded(Snapshot(k), v)
  <2>1. Snapshot(k)' = snapshot(push(r, v))
    BY <1>1, <1>2 DEF Snapshot, snapshot
  <2>2. QED
    BY <1>2, <2>1, PushSnapshot
<1>4. \A x \in Key \ {k} : Snapshot(x)' = Snapshot(x)
  BY <1>1 DEF Snapshot, snapshot
<1>5. QED
  BY <1>1, <1>3, <1>4 DEF Keys

(* The ring buffers implement the log: each Append records its result in   *)
(* the log of its key, drops the oldest one when Cap are retained, and     *)
(* leaves every other key alone.                                           *)
THEOREM Implements == Spec => LogSpec
<1> DEFINE log == [k \in Key |-> Snapshot(k)]
<1>1. Init => Log!Init
  BY DEF Init, Log!Init, Snapshot
<1>2. IInv /\ [Next]_bufs => [Log!Next]_log
  <2> SUFFICES ASSUME IInv, [Next]_bufs
               PROVE  [Log!Next]_log
    OBVIOUS
  <2>1. ASSUME NEW k \in Key, NEW v \in Result, AppendResult(k, v)
        PROVE  Log!Next
    <3>1. /\ Snapshot(k)' = Log!Recorded(Snapshot(k), v)
          /\ \A x \in Key \ {k} : Snapshot(x)' = Snapshot(x)
      BY <2>1, AppendRecords
    <3>2. log' = [log EXCEPT ![k] = Log!Recorded(@, v)]
      BY <3>1
    <3>3. QED
      BY <3>2 DEF Log!Next, Log!Record
  <2>2. CASE UNCHANGED bufs
    BY <2>2 DEF Snapshot, snapshot
  <2>3. QED
    BY <2>1, <2>2 DEF Next
<1>3. QED
  BY Invariance, <1>1, <1>2, PTL DEF Spec, LogSpec, Log!Spec
=============================================================================
