-------------------------- MODULE ICMPProberProofs --------------------------
(***************************************************************************)
(* Proofs about ICMPProber, for any calls, sequence numbers and foreign    *)
(* messages: the read loop never waits for room in the channel of a call   *)
(* (IInv, for which the assumption on the lifetime of sequence numbers is  *)
(* not used), and a reply finds the call that waits for it and no other    *)
(* (JInv, for which it is).                                                *)
(***************************************************************************)
EXTENDS ICMPProber, TLAPS

(* A channel is in the map at most once, and as long as it is, nothing has *)
(* been sent to it.                                                        *)
Slots ==
  /\ \A s, t \in DOMAIN pending : pending[s] = pending[t] => s = t
  /\ \A s \in DOMAIN pending : chan[pending[s]] = 0 /\ loop # SendingTo(pending[s])

(* The channel of a call that has not begun is nowhere. *)
Fresh ==
  \A c \in Call :
    pc[c] = "new" => /\ chan[c] = 0 /\ loop # SendingTo(c)
                     /\ \A s \in DOMAIN pending : pending[s] # c

(* The inductive invariant. *)
IInv == TypeOK /\ Slots /\ Fresh /\ LoopNeverBlocks

(* The points of readLoop are different from each other.                   *)
LEMMA LoopPoints ==
  \A c, d \in Call : /\ SendingTo(c) # Reading /\ SendingTo(c) # Ended
                     /\ SendingTo(c) = SendingTo(d) => c = d
<1>1. Reading.pc = "read" /\ Ended.pc = "ended"
  BY DEF Reading, Ended
<1>2. \A c \in Call : SendingTo(c).pc = "send" /\ SendingTo(c).to = c
  BY DEF SendingTo
<1>3. \A c \in Call : SendingTo(c) # Reading /\ SendingTo(c) # Ended
  BY <1>1, <1>2
<1>4. ASSUME NEW c \in Call, NEW d \in Call, SendingTo(c) = SendingTo(d)
      PROVE  c = d
  BY <1>2, <1>4
<1>5. QED
  BY <1>3, <1>4

LEMMA InitHolds == Init => IInv
<1> SUFFICES ASSUME Init PROVE IInv
  OBVIOUS
<1>1. 0 \in Seq16
  BY ICMPAssumption DEF Seq16
<1>2. DOMAIN pending = {}
  BY DEF Init
<1>3. TypeOK
  <2>1. nextSeq \in Seq16 /\ seq \in [Call -> Seq16]
    BY <1>1 DEF Init
  <2>2. DOMAIN pending \subseteq Seq16 /\ Range(pending) \subseteq Call
    BY <1>2 DEF Range
  <2>3. /\ pc \in [Call -> {"new", "write", "wait", "ok", "unsent", "failed"}]
        /\ chan \in [Call -> 0 .. 1]
        /\ net \subseteq [seq : Seq16, call : Call]
    BY DEF Init
  <2>4. loop \in {Reading, Ended} \cup {SendingTo(c) : c \in Call}
    BY DEF Init
  <2>5. QED
    BY <2>1, <2>2, <2>3, <2>4 DEF TypeOK
<1>4. Slots
  BY <1>2 DEF Slots
<1>5. Fresh /\ LoopNeverBlocks
  BY <1>2, LoopPoints DEF Init, Fresh, LoopNeverBlocks
<1>6. QED
  BY <1>3, <1>4, <1>5 DEF IInv

(* What removing an entry leaves.                                          *)
LEMMA Removed ==
  ASSUME NEW s, TypeOK
  PROVE  /\ DOMAIN Without(pending, s) = DOMAIN pending \ {s}
         /\ \A t \in DOMAIN pending \ {s} : Without(pending, s)[t] = pending[t]
         /\ Range(Without(pending, s)) \subseteq Call
BY DEF Without, Restrict, Range, TypeOK

(* A step of a call that has begun and touches neither the loop nor the    *)
(* messages: entries may leave the map and channels may be emptied.        *)
LEMMA CallStep ==
  ASSUME IInv, NEW c \in Call,
         \/ Write(c) \/ WriteFails(c) \/ Succeed(c) \/ TimeOut(c) \/ CtxDone(c)
  PROVE  IInv'
<1> USE DEF IInv
<1>1. /\ UNCHANGED <<nextSeq, seq, loop, net>>
      /\ pc[c] # "new"
      /\ \E x \in {"wait", "ok", "unsent", "failed"} : pc' = [pc EXCEPT ![c] = x]
  BY DEF Write, WriteFails, Succeed, TimeOut, CtxDone
<1>2. /\ DOMAIN pending' \subseteq DOMAIN pending
      /\ \A s \in DOMAIN pending' : pending'[s] = pending[s]
  <2>1. CASE TimeOut(c)
    BY <2>1, Removed DEF TimeOut
  <2>2. CASE ~ TimeOut(c)
    BY <2>2 DEF Write, WriteFails, Succeed, CtxDone
  <2>3. QED
    BY <2>1, <2>2
<1>3. /\ chan' \in [Call -> 0 .. 1]
      /\ \A d \in Call : chan[d] = 0 => chan'[d] = 0
  <2>1. CASE Succeed(c)
    BY <2>1 DEF Succeed, TypeOK
  <2>2. CASE ~ Succeed(c)
    BY <2>2 DEF Write, WriteFails, TimeOut, CtxDone, TypeOK
  <2>3. QED
    BY <2>1, <2>2
<1>4. \A s \in DOMAIN pending : pending[s] \in Call
  BY DEF TypeOK, Range
<1>5. TypeOK'
  <2>1. DOMAIN pending' \subseteq Seq16 /\ Range(pending') \subseteq Call
    BY <1>2, <1>4 DEF TypeOK, Range
  <2>2. pc' \in [Call -> {"new", "write", "wait", "ok", "unsent", "failed"}]
    BY <1>1 DEF TypeOK
  <2>3. QED
    BY <1>1, <1>3, <2>1, <2>2 DEF TypeOK
<1>6. Slots'
  BY <1>1, <1>2, <1>3, <1>4 DEF Slots
<1>7. Fresh'
  <2>1. \A d \in Call : pc'[d] = "new" => pc[d] = "new"
    BY <1>1 DEF TypeOK
  <2>2. QED
    BY <1>1, <1>2, <1>3, <2>1 DEF Fresh
<1>8. LoopNeverBlocks'
  BY <1>1, <1>3 DEF LoopNeverBlocks
<1>9. QED
  BY <1>5, <1>6, <1>7, <1>8

(* A call begins: its channel was nowhere before.                          *)
LEMMA RegisterStep ==
  ASSUME IInv, NEW c \in Call, Register(c)
  PROVE  IInv'
<1> USE DEF IInv
<1> DEFINE s == (nextSeq + 1) % SeqMod
<1>1. s \in Seq16
  BY ICMPAssumption DEF TypeOK, Seq16
<1>2. /\ pc[c] = "new" /\ UNCHANGED <<chan, loop, net, replied>>
      /\ nextSeq' = s /\ seq' = [seq EXCEPT ![c] = s]
      /\ pc' = [pc EXCEPT ![c] = "write"]
      /\ pending' = [x \in DOMAIN pending \cup {s} |-> IF x = s THEN c ELSE pending[x]]
  BY DEF Register
<1> HIDE DEF s
<1>3. chan[c] = 0 /\ loop # SendingTo(c) /\ \A t \in DOMAIN pending : pending[t] # c
  BY <1>2 DEF Fresh
<1>4. /\ DOMAIN pending' = DOMAIN pending \cup {s}
      /\ pending'[s] = c
      /\ \A t \in DOMAIN pending \ {s} : pending'[t] = pending[t]
  BY <1>2
<1>5. \A t \in DOMAIN pending : pending[t] \in Call
  BY DEF TypeOK, Range
<1>6. TypeOK'
  <2>1. DOMAIN pending' \subseteq Seq16 /\ Range(pending') \subseteq Call
    BY <1>1, <1>4, <1>5 DEF TypeOK, Range
  <2>2. /\ nextSeq' \in Seq16 /\ seq' \in [Call -> Seq16]
        /\ pc' \in [Call -> {"new", "write", "wait", "ok", "unsent", "failed"}]
    BY <1>1, <1>2 DEF TypeOK
  <2>3. QED
    BY <1>2, <2>1, <2>2 DEF TypeOK
<1>7. Slots'
  BY <1>2, <1>3, <1>4 DEF Slots
<1>8. Fresh'
  BY <1>2, <1>4 DEF Fresh, TypeOK
<1>9. LoopNeverBlocks'
  BY <1>2 DEF LoopNeverBlocks
<1>10. QED
  BY <1>6, <1>7, <1>8, <1>9

(* The loop takes a channel out of the map before it sends to it.          *)
LEMMA DispatchStep ==
  ASSUME IInv, NEW s, Dispatch(s), net' \subseteq net,
         UNCHANGED <<nextSeq, pc, seq, chan, replied>>
  PROVE  IInv'
<1> USE DEF IInv
<1>1. /\ DOMAIN pending' = DOMAIN pending \ {s}
      /\ \A t \in DOMAIN pending \ {s} : pending'[t] = pending[t]
      /\ Range(pending') \subseteq Call
  BY Removed DEF Dispatch
<1>2. \A t \in DOMAIN pending : pending[t] \in Call
  BY DEF TypeOK, Range
<1>3. \/ s \in DOMAIN pending /\ loop' = SendingTo(pending[s])
      \/ s \notin DOMAIN pending /\ loop' = Reading
  BY DEF Dispatch
<1>4. TypeOK'
  <2>1. loop' \in {Reading, Ended} \cup {SendingTo(c) : c \in Call}
    BY <1>2, <1>3
  <2>2. QED
    BY <1>1, <2>1 DEF TypeOK
<1>5. Slots'
  <2>1. \A t \in DOMAIN pending' : loop' # SendingTo(pending'[t])
    BY <1>1, <1>2, <1>3, LoopPoints DEF Slots
  <2>2. QED
    BY <1>1, <2>1 DEF Slots
<1>6. Fresh'
  <2>1. \A c \in Call : pc[c] = "new" => loop' # SendingTo(c)
    BY <1>2, <1>3, LoopPoints DEF Fresh
  <2>2. QED
    BY <1>1, <2>1 DEF Fresh
<1>7. LoopNeverBlocks'
  BY <1>2, <1>3, LoopPoints DEF Slots, LoopNeverBlocks
<1>8. QED
  BY <1>4, <1>5, <1>6, <1>7

(* The loop sends, or ends.                                                *)
LEMMA LoopStep ==
  ASSUME IInv, \/ \E c \in Call : Deliver(c)
               \/ ReadFails
  PROVE  IInv'
<1> USE DEF IInv
<1>1. UNCHANGED <<nextSeq, pending, pc, seq, net, replied>> /\ loop' \in {Reading, Ended}
  BY DEF Deliver, ReadFails
<1>2. \A d \in Call : loop' # SendingTo(d)
  BY <1>1, LoopPoints
<1>3. \A t \in DOMAIN pending : pending[t] \in Call
  BY DEF TypeOK, Range
<1>4. /\ chan' \in [Call -> 0 .. 1]
      /\ \A d \in Call : chan'[d] = chan[d] \/ loop = SendingTo(d)
  BY DEF Deliver, ReadFails, TypeOK
<1>5. TypeOK'
  BY <1>1, <1>4 DEF TypeOK
<1>6. Slots'
  BY <1>1, <1>2, <1>3, <1>4 DEF Slots
<1>7. Fresh'
  BY <1>1, <1>2, <1>4 DEF Fresh
<1>8. LoopNeverBlocks'
  BY <1>2 DEF LoopNeverBlocks
<1>9. QED
  BY <1>5, <1>6, <1>7, <1>8

(* Messages come and go, or nothing happens.                               *)
LEMMA NetStep ==
  ASSUME IInv, net' \subseteq [seq : Seq16, call : Call],
         UNCHANGED <<nextSeq, pending, pc, seq, chan, loop>>
  PROVE  IInv'
BY DEF IInv, TypeOK, Slots, Fresh, LoopNeverBlocks

LEMMA Invariance == Spec => []IInv
<1>1. IInv /\ [Next]_icmpVars => IInv'
  <2> SUFFICES ASSUME IInv, [Next]_icmpVars PROVE IInv'
    OBVIOUS
  <2> USE DEF Next
  <2>0. net \subseteq [seq : Seq16, call : Call]
    BY DEF IInv, TypeOK
  <2>1. CASE \E c \in Call : Register(c)
    BY <2>1, RegisterStep
  <2>2. CASE \E c \in Call : \/ Write(c) \/ WriteFails(c) \/ Succeed(c)
                             \/ TimeOut(c) \/ CtxDone(c)
    BY <2>2, CallStep
  <2>3. CASE (\E c \in Call : Deliver(c)) \/ ReadFails
    BY <2>3, LoopStep
  <2>4. CASE \E c \in Call : TargetReplies(c)
    <3>1. net' \subseteq [seq : Seq16, call : Call]
      BY <2>4, <2>0 DEF TargetReplies, IInv, TypeOK
    <3>2. QED
      BY <2>4, <3>1, NetStep DEF TargetReplies
  <2>5. CASE \E m \in net : ReplyArrives(m)
    BY <2>5, DispatchStep DEF ReplyArrives
  <2>6. CASE \E m \in net : Lose(m)
    BY <2>6, <2>0, NetStep DEF Lose
  <2>7. CASE \E s \in Foreign : ForeignArrives(s)
    BY <2>7, DispatchStep DEF ForeignArrives
  <2>8. CASE Quiet \/ UNCHANGED icmpVars
    BY <2>8, <2>0, NetStep DEF Quiet, icmpVars
  <2>9. QED
    BY <2>1, <2>2, <2>3, <2>4, <2>5, <2>6, <2>7, <2>8
<1>2. QED
  BY InitHolds, <1>1, PTL DEF Spec

(* For any calls and numbers, channels, map and messages are well formed:  *)
(* in particular no channel ever holds two results.                        *)
THEOREM TypeCorrect == Spec => []TypeOK
<1>1. IInv => TypeOK
  BY DEF IInv
<1>2. QED
  BY Invariance, <1>1, PTL

(* However many replies are late, duplicated or foreign, and whichever     *)
(* calls have given up, the loop never stalls on the channel of a call.    *)
THEOREM NeverBlocks == Spec => []LoopNeverBlocks
<1>1. IInv => LoopNeverBlocks
  BY DEF IInv
<1>2. QED
  BY Invariance, <1>1, PTL

-----------------------------------------------------------------------------
(* Calls that are under way have different numbers. *)
Distinct == \A c, d \in Call : Active(c) /\ Active(d) /\ seq[c] = seq[d] => c = d

(* An entry of the map is under the number that its call took. *)
Named == \A s \in DOMAIN pending : seq[pending[s]] = s

(* A reply on its way is one to a request with its number, and no later    *)
(* call is under way that has the same number.                             *)
Replies ==
  \A m \in net :
    /\ m.call \in replied /\ pc[m.call] # "new" /\ seq[m.call] = m.seq
    /\ \A c \in Call : Active(c) /\ seq[c] = m.seq => c = m.call

(* What has been or is being sent to a call that is under way is its own.  *)
Own ==
  \A c \in Call :
    Active(c) /\ (chan[c] # 0 \/ loop = SendingTo(c)) => c \in replied \/ seq[c] \in Foreign

(* The second inductive invariant, which needs the first. *)
JInv == Distinct /\ Named /\ Replies /\ Own /\ ReplyFindsWaiter /\ OKMeansOwnNumber

LEMMA JInit == Init => JInv
<1> SUFFICES ASSUME Init PROVE JInv
  OBVIOUS
<1>1. \A c \in Call : ~ Active(c) /\ pc[c] # "ok"
  BY DEF Init, Active
<1>2. DOMAIN pending = {} /\ net = {}
  BY DEF Init
<1>3. QED
  BY <1>1, <1>2 DEF JInv, Distinct, Named, Replies, Own, ReplyFindsWaiter, OKMeansOwnNumber

(* The number that a call takes is in no message and no call that is under *)
(* way has it; an entry that was left behind under it is replaced.         *)
LEMMA JRegister ==
  ASSUME IInv, JInv, NEW c \in Call, Register(c)
  PROVE  JInv'
<1> DEFINE s == (nextSeq + 1) % SeqMod
<1>1. /\ pc[c] = "new" /\ UNCHANGED <<chan, loop, net, replied>>
      /\ \A d \in Call : Active(d) => seq[d] # s
      /\ \A m \in net : m.seq # s
      /\ seq' = [seq EXCEPT ![c] = s]
      /\ pc' = [pc EXCEPT ![c] = "write"]
      /\ pending' = [x \in DOMAIN pending \cup {s} |-> IF x = s THEN c ELSE pending[x]]
  BY DEF Register
<1> HIDE DEF s
<1>2. /\ pc \in [Call -> {"new", "write", "wait", "ok", "unsent", "failed"}]
      /\ seq \in [Call -> Seq16] /\ net \subseteq [seq : Seq16, call : Call]
      /\ \A t \in DOMAIN pending : pending[t] \in Call
  BY DEF IInv, TypeOK, Range
<1>3. /\ seq'[c] = s /\ pc'[c] = "write" /\ Active(c)' /\ ~ Active(c)
      /\ \A d \in Call \ {c} : seq'[d] = seq[d] /\ pc'[d] = pc[d] /\ (Active(d)' <=> Active(d))
  BY <1>1, <1>2 DEF Active
<1>4. /\ chan[c] = 0 /\ loop # SendingTo(c) /\ \A t \in DOMAIN pending : pending[t] # c
  BY <1>1 DEF IInv, Fresh
<1>5. /\ DOMAIN pending' = DOMAIN pending \cup {s} /\ pending'[s] = c
      /\ \A t \in DOMAIN pending \ {s} : pending'[t] = pending[t]
  BY <1>1
<1>6. Distinct'
  BY <1>1, <1>3 DEF JInv, Distinct
<1>7. Named'
  BY <1>2, <1>3, <1>4, <1>5 DEF JInv, Named
<1>8. Replies'
  <2> SUFFICES ASSUME NEW m \in net
               PROVE  /\ m.call \in replied /\ pc'[m.call] # "new" /\ seq'[m.call] = m.seq
                      /\ \A d \in Call : Active(d)' /\ seq'[d] = m.seq => d = m.call
    BY <1>1 DEF Replies
  <2>1. m.call \in Call /\ m.call # c /\ m.seq # s
    BY <1>1, <1>2 DEF JInv, Replies
  <2>2. QED
    BY <1>3, <2>1 DEF JInv, Replies
<1>9. Own'
  BY <1>1, <1>3, <1>4 DEF JInv, Own
<1>10. ReplyFindsWaiter'
  BY <1>1, <1>3, <1>5 DEF JInv, ReplyFindsWaiter
<1>11. OKMeansOwnNumber'
  BY <1>1, <1>3 DEF JInv, OKMeansOwnNumber
<1>12. QED
  BY <1>6, <1>7, <1>8, <1>9, <1>10, <1>11 DEF JInv

(* A call goes on or gives up: its late deletion removes no entry of       *)
(* another call that is under way, because their numbers differ.           *)
LEMMA JCall ==
  ASSUME IInv, JInv, NEW c \in Call,
         \/ Write(c) \/ WriteFails(c) \/ Succeed(c) \/ TimeOut(c) \/ CtxDone(c)
  PROVE  JInv'
<1>1. UNCHANGED <<seq, loop, net, replied>>
  BY DEF Write, WriteFails, Succeed, TimeOut, CtxDone
<1>2. /\ pc \in [Call -> {"new", "write", "wait", "ok", "unsent", "failed"}]
      /\ chan \in [Call -> 0 .. 1]
      /\ net \subseteq [seq : Seq16, call : Call]
  BY DEF IInv, TypeOK
<1>3. /\ Active(c) /\ pc'[c] # "new"
      /\ \A d \in Call \ {c} : pc'[d] = pc[d] /\ chan'[d] = chan[d]
      /\ \A d \in Call : Active(d)' => Active(d)
      /\ Active(c)' => chan'[c] = chan[c] /\ pending' = pending
      /\ pc'[c] = "ok" => Succeed(c)
  BY <1>2 DEF Write, WriteFails, Succeed, TimeOut, CtxDone, Active
<1>4. /\ DOMAIN pending' \subseteq DOMAIN pending
      /\ \A t \in DOMAIN pending' : pending'[t] = pending[t]
      /\ \A t \in DOMAIN pending : t # seq[c] => t \in DOMAIN pending'
  <2>1. CASE TimeOut(c)
    BY <2>1, Removed DEF TimeOut, IInv
  <2>2. CASE ~ TimeOut(c)
    BY <2>2 DEF Write, WriteFails, Succeed, CtxDone
  <2>3. QED
    BY <2>1, <2>2
<1>5. Distinct' /\ Named' /\ Own'
  BY <1>1, <1>3, <1>4 DEF JInv, Distinct, Named, Own
<1>6. Replies'
  <2> SUFFICES ASSUME NEW m \in net
               PROVE  /\ m.call \in replied /\ pc'[m.call] # "new" /\ seq[m.call] = m.seq
                      /\ \A d \in Call : Active(d)' /\ seq[d] = m.seq => d = m.call
    BY <1>1 DEF Replies
  <2>1. m.call \in Call
    BY <1>2
  <2>2. QED
    BY <1>3, <2>1 DEF JInv, Replies
<1>7. ReplyFindsWaiter'
  <2> SUFFICES ASSUME NEW d \in Call, Active(d)'
               PROVE  \/ chan'[d] = 1 \/ loop = SendingTo(d)
                      \/ seq[d] \in DOMAIN pending' /\ pending'[seq[d]] = d
    BY <1>1 DEF ReplyFindsWaiter
  <2>1. CASE d = c
    BY <1>3, <2>1 DEF JInv, ReplyFindsWaiter
  <2>2. CASE d # c
    <3>1. seq[d] # seq[c]
      BY <1>3, <2>2 DEF JInv, Distinct
    <3>2. QED
      BY <1>3, <1>4, <2>2, <3>1 DEF JInv, ReplyFindsWaiter
  <2>3. QED
    BY <2>1, <2>2
<1>8. OKMeansOwnNumber'
  <2> SUFFICES ASSUME NEW d \in Call, pc'[d] = "ok" PROVE d \in replied \/ seq[d] \in Foreign
    BY <1>1 DEF OKMeansOwnNumber
  <2>1. CASE d = c
    <3>1. chan[c] # 0
      BY <1>2, <1>3, <2>1 DEF Succeed
    <3>2. QED
      BY <1>3, <2>1, <3>1 DEF JInv, Own
  <2>2. CASE d # c
    BY <1>3, <2>2 DEF JInv, OKMeansOwnNumber
  <2>3. QED
    BY <2>1, <2>2
<1>9. QED
  BY <1>5, <1>6, <1>7, <1>8 DEF JInv

(* The loop has read a message with number s.                              *)
LEMMA JDispatch ==
  ASSUME IInv, JInv, NEW s, Dispatch(s), net' \subseteq net,
         UNCHANGED <<nextSeq, pc, seq, chan, replied>>,
         s \in Foreign \/ \E m \in net : m.seq = s
  PROVE  JInv'
<1>1. /\ DOMAIN pending' = DOMAIN pending \ {s}
      /\ \A t \in DOMAIN pending \ {s} : pending'[t] = pending[t]
  BY Removed DEF Dispatch, IInv
<1>2. \A t \in DOMAIN pending : pending[t] \in Call
  BY DEF IInv, TypeOK, Range
<1>3. \/ s \in DOMAIN pending /\ loop' = SendingTo(pending[s])
      \/ s \notin DOMAIN pending /\ loop' = Reading
  BY DEF Dispatch
<1>4. \A c \in Call : loop # SendingTo(c)
  BY LoopPoints DEF Dispatch
<1>5. \A c \in Call : Active(c)' <=> Active(c)
  BY DEF Active
<1>6. Distinct' /\ Named' /\ Replies' /\ OKMeansOwnNumber'
  BY <1>1, <1>2, <1>5 DEF JInv, Distinct, Named, Replies, OKMeansOwnNumber
<1>7. Own'
  <2> SUFFICES ASSUME NEW c \in Call, Active(c), chan[c] # 0 \/ loop' = SendingTo(c)
               PROVE  c \in replied \/ seq[c] \in Foreign
    BY <1>5 DEF Own
  <2>1. CASE chan[c] # 0
    BY <2>1 DEF JInv, Own
  <2>2. CASE loop' = SendingTo(c)
    <3>1. s \in DOMAIN pending /\ pending[s] = c
      BY <1>2, <1>3, <2>2, LoopPoints
    <3>2. seq[c] = s
      BY <3>1 DEF JInv, Named
    <3>3. QED
      BY <3>2 DEF JInv, Replies
  <2>3. QED
    BY <2>1, <2>2
<1>8. ReplyFindsWaiter'
  <2> SUFFICES ASSUME NEW c \in Call, Active(c)
               PROVE  \/ chan[c] = 1 \/ loop' = SendingTo(c)
                      \/ seq[c] \in DOMAIN pending' /\ pending'[seq[c]] = c
    BY <1>5 DEF ReplyFindsWaiter
  <2>1. chan[c] = 1 \/ (seq[c] \in DOMAIN pending /\ pending[seq[c]] = c)
    BY <1>4 DEF JInv, ReplyFindsWaiter
  <2>2. QED
    BY <1>1, <1>3, <2>1
<1>9. QED
  BY <1>6, <1>7, <1>8 DEF JInv

LEMMA JLoop ==
  ASSUME IInv, JInv, \/ \E c \in Call : Deliver(c)
                     \/ ReadFails
  PROVE  JInv'
<1>1. /\ UNCHANGED <<nextSeq, pending, pc, seq, net, replied>>
      /\ \A c \in Call : loop' # SendingTo(c)
  BY LoopPoints DEF Deliver, ReadFails
<1>2. \A c \in Call : \/ chan'[c] = chan[c] /\ loop # SendingTo(c)
                      \/ chan'[c] = 1 /\ loop = SendingTo(c)
  <2>1. ASSUME NEW d \in Call, Deliver(d), NEW c \in Call
        PROVE  \/ chan'[c] = chan[c] /\ loop # SendingTo(c)
               \/ chan'[c] = 1 /\ loop = SendingTo(c)
    BY <2>1, LoopPoints DEF Deliver, IInv, TypeOK
  <2>2. CASE ReadFails
    BY <2>2, LoopPoints DEF ReadFails
  <2>3. QED
    BY <2>1, <2>2
<1>3. \A c \in Call : Active(c)' <=> Active(c)
  BY <1>1 DEF Active
<1>4. Distinct' /\ Named' /\ Replies' /\ OKMeansOwnNumber'
  BY <1>1, <1>3 DEF JInv, Distinct, Named, Replies, OKMeansOwnNumber
<1>5. Own' /\ ReplyFindsWaiter'
  BY <1>1, <1>2, <1>3 DEF JInv, Own, ReplyFindsWaiter
<1>6. QED
  BY <1>4, <1>5 DEF JInv

(* A target answers a request while no later call has its number.          *)
LEMMA JReplies ==
  ASSUME IInv, JInv, NEW c \in Call, TargetReplies(c)
  PROVE  JInv'
<1>1. /\ UNCHANGED <<nextSeq, pending, pc, seq, chan, loop>>
      /\ replied' = replied \cup {c}
      /\ net' = net \cup {[seq |-> seq[c], call |-> c]}
      /\ pc[c] # "new"
      /\ \A d \in Call : d # c /\ seq[d] = seq[c] => ~ Active(d)
  BY DEF TargetReplies
<1>2. \A d \in Call : Active(d)' <=> Active(d)
  BY <1>1 DEF Active
<1>3. Replies'
  <2> SUFFICES ASSUME NEW m \in net'
               PROVE  /\ m.call \in replied' /\ pc[m.call] # "new" /\ seq[m.call] = m.seq
                      /\ \A d \in Call : Active(d) /\ seq[d] = m.seq => d = m.call
    BY <1>1, <1>2 DEF Replies
  <2>1. CASE m \in net
    BY <1>1, <2>1 DEF JInv, Replies
  <2>2. CASE m \notin net
    <3>1. m.seq = seq[c] /\ m.call = c
      BY <1>1, <2>2
    <3>2. QED
      BY <1>1, <3>1
  <2>3. QED
    BY <2>1, <2>2
<1>4. Distinct' /\ Named' /\ Own' /\ ReplyFindsWaiter' /\ OKMeansOwnNumber'
  BY <1>1, <1>2 DEF JInv, Distinct, Named, Own, ReplyFindsWaiter, OKMeansOwnNumber
<1>5. QED
  BY <1>3, <1>4 DEF JInv

LEMMA JNet ==
  ASSUME JInv, net' \subseteq net,
         UNCHANGED <<nextSeq, pending, pc, seq, chan, loop, replied>>
  PROVE  JInv'
BY DEF JInv, Distinct, Named, Replies, Own, ReplyFindsWaiter, OKMeansOwnNumber, Active

LEMMA JInvariance == Spec => []JInv
<1>1. IInv /\ JInv /\ [Next]_icmpVars => JInv'
  <2> SUFFICES ASSUME IInv, JInv, [Next]_icmpVars PROVE JInv'
    OBVIOUS
  <2>1. CASE \E c \in Call : Register(c)
    BY <2>1, JRegister
  <2>2. CASE \E c \in Call : \/ Write(c) \/ WriteFails(c) \/ Succeed(c)
                             \/ TimeOut(c) \/ CtxDone(c)
    BY <2>2, JCall
  <2>3. CASE (\E c \in Call : Deliver(c)) \/ ReadFails
    BY <2>3, JLoop
  <2>4. CASE \E c \in Call : TargetReplies(c)
    BY <2>4, JReplies
  <2>5. ASSUME NEW m \in net, ReplyArrives(m) PROVE JInv'
    <3>1. Dispatch(m.seq) /\ net' \subseteq net /\ \E x \in net : x.seq = m.seq
      BY <2>5 DEF ReplyArrives
    <3>2. UNCHANGED <<nextSeq, pc, seq, chan, replied>>
      BY <2>5 DEF ReplyArrives
    <3>3. QED
      BY <3>1, <3>2, JDispatch
  <2>6. CASE \E m \in net : Lose(m)
    BY <2>6, JNet DEF Lose
  <2>7. CASE \E s \in Foreign : ForeignArrives(s)
    BY <2>7, JDispatch DEF ForeignArrives
  <2>8. CASE Quiet \/ UNCHANGED icmpVars
    BY <2>8, JNet DEF Quiet, icmpVars
  <2>9. QED
    BY <2>1, <2>2, <2>3, <2>4, <2>5, <2>6, <2>7, <2>8 DEF Next
<1>2. QED
  BY Invariance, JInit, <1>1, PTL DEF Spec

(* The entry that Probe has put into the map stays there until readLoop    *)
(* takes it, whatever calls that are over have left behind or delete late. *)
THEOREM WaiterIsFound == Spec => []ReplyFindsWaiter
<1>1. JInv => ReplyFindsWaiter
  BY DEF JInv
<1>2. QED
  BY JInvariance, <1>1, PTL

(* Probe never succeeds on the reply to another call: its own target has   *)
(* answered, or a message that is not for this prober bore its number.     *)
THEOREM SucceedsOnOwnNumber == Spec => []OKMeansOwnNumber
<1>1. JInv => OKMeansOwnNumber
  BY DEF JInv
<1>2. QED
  BY JInvariance, <1>1, PTL

(* What the comment on Probe says is true where no other echo messages     *)
(* reach the host: these are all that stands between the two.              *)
THEOREM RepliedIfAlone ==
  ASSUME Foreign = {}
  PROVE  Spec => []OKMeansReplied
<1>1. OKMeansOwnNumber => OKMeansReplied
  BY DEF OKMeansOwnNumber, OKMeansReplied
<1>2. QED
  BY SucceedsOnOwnNumber, <1>1, PTL
=============================================================================
