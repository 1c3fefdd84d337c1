----------------------------- MODULE ICMPProber -----------------------------
(***************************************************************************)
(* internal/pkg/probe/icmp: one raw socket for all calls of Probe.  A call *)
(* takes the next sequence number, enters its channel (one slot) in the    *)
(* pending map under that number, writes an echo request and waits for the *)
(* channel, its timeout or its context.  One goroutine, readLoop, reads    *)
(* the socket, takes the channel out of the map and sends to it.           *)
(*                                                                         *)
(* A raw socket receives every ICMP message that reaches the host, and     *)
(* readLoop looks at nothing but the sequence number: Foreign are those of *)
(* the echo messages that are no replies to this prober (the requests of a *)
(* peer's prober, the replies to another process).                         *)
(*                                                                         *)
(* Sequence numbers are SeqMod values here instead of 2^16.  Assumed: when *)
(* a number comes round again, the call that had it is over and so are the *)
(* replies to it (2^16 probes take far longer than a timeout).  What that  *)
(* call left behind in the map may still be there.                         *)
(***************************************************************************)
EXTENDS Integers, FiniteSets, Functions

CONSTANTS Call,      \* calls of Probe
          SeqMod,    \* 16#10000 in the code
          Foreign    \* sequence numbers of echo messages not meant for us

ASSUME ICMPAssumption ==
  /\ SeqMod \in Nat \ {0}
  /\ Foreign \subseteq 0 .. SeqMod - 1

VARIABLES nextSeq,  \* Prober.nextSeq
          pending,  \* Prober.pending: sequence number -> channel of a call
          pc,       \* pc[c]: "new", "write", "wait", "ok", "unsent", "failed"
          seq,      \* seq[c]: the number that c took
          chan,     \* chan[c]: results buffered in the channel of c
          loop,     \* readLoop: "read", "ended", or the call it sends to
          net,      \* replies on their way, as [seq, call]
          replied   \* the calls whose target has answered

icmpVars == <<nextSeq, pending, pc, seq, chan, loop, net, replied>>

Seq16 == 0 .. SeqMod - 1

Active(c) == pc[c] \in {"write", "wait"}

Reading == [pc |-> "read"]
Ended == [pc |-> "ended"]
SendingTo(c) == [pc |-> "send", to |-> c]

Without(m, s) == Restrict(m, DOMAIN m \ {s})

Init ==
  /\ nextSeq = 0
  /\ pending = [s \in {} |-> 0]
  /\ pc = [c \in Call |-> "new"]
  /\ seq = [c \in Call |-> 0]
  /\ chan = [c \in Call |-> 0]
  /\ loop = Reading
  /\ net = {} /\ replied = {}

-----------------------------------------------------------------------------
(* Probe. *)

(* An entry of the map is not replaced. *)
Mut_Register_keep(c) ==
  LET s == (nextSeq + 1) % SeqMod
  IN  /\ pc[c] = "new"
      /\ \A d \in Call : Active(d) => seq[d] # s
      /\ \A m \in net : m.seq # s
      /\ nextSeq' = s
      /\ seq' = [seq EXCEPT ![c] = s]
      /\ pending' = [x \in DOMAIN pending \cup {s} |->
                       IF x \in DOMAIN pending THEN pending[x] ELSE c]
      /\ pc' = [pc EXCEPT ![c] = "write"]
      /\ UNCHANGED <<chan, loop, net, replied>>

(* The number runs past 16 bits. *)
Mut_Register_noWrap(c) ==
  /\ pc[c] = "new"
  /\ nextSeq' = nextSeq + 1
  /\ seq' = [seq EXCEPT ![c] = nextSeq + 1]
  /\ pending' = [x \in DOMAIN pending \cup {nextSeq + 1} |->
                   IF x = nextSeq + 1 THEN c ELSE pending[x]]
  /\ pc' = [pc EXCEPT ![c] = "write"]
  /\ UNCHANGED <<chan, loop, net, replied>>

(* The map is locked; an entry that was left behind is replaced.  (The     *)
(* second and third conjunct are the assumption on lifetimes.)             *)
Register(c) ==
  LET s == (nextSeq + 1) % SeqMod
  IN  /\ pc[c] = "new"
      /\ \A d \in Call : Active(d) => seq[d] # s
      /\ \A m \in net : m.seq # s
      /\ nextSeq' = s
      /\ seq' = [seq EXCEPT ![c] = s]
      /\ pending' = [x \in DOMAIN pending \cup {s} |-> IF x = s THEN c ELSE pending[x]]
      /\ pc' = [pc EXCEPT ![c] = "write"]
      /\ UNCHANGED <<chan, loop, net, replied>>

Write(c) ==
  /\ pc[c] = "write"
  /\ pc' = [pc EXCEPT ![c] = "wait"]
  /\ UNCHANGED <<nextSeq, pending, seq, chan, loop, net, replied>>

(* buildEcho or WriteTo fails: the entry in the map is left behind. *)
WriteFails(c) ==
  /\ pc[c] = "write"
  /\ pc' = [pc EXCEPT ![c] = "unsent"]
  /\ UNCHANGED <<nextSeq, pending, seq, chan, loop, net, replied>>

(* The three cases of the select. *)
Succeed(c) ==
  /\ pc[c] = "wait"
  /\ chan[c] > 0
  /\ chan' = [chan EXCEPT ![c] = @ - 1]
  /\ pc' = [pc EXCEPT ![c] = "ok"]
  /\ UNCHANGED <<nextSeq, pending, seq, loop, net, replied>>

(* A call waits for its channel alone. *)
Mut_TimeOut_never(c) ==
  /\ pc[c] = "wait"
  /\ chan[c] > 0
  /\ pc' = [pc EXCEPT ![c] = "failed"]
  /\ pending' = Without(pending, seq[c])
  /\ UNCHANGED <<nextSeq, seq, chan, loop, net, replied>>

TimeOut(c) ==
  /\ pc[c] = "wait"
  /\ pc' = [pc EXCEPT ![c] = "failed"]
  /\ pending' = Without(pending, seq[c])
  /\ UNCHANGED <<nextSeq, seq, chan, loop, net, replied>>

(* The context ends; the entry in the map is left behind. *)
CtxDone(c) ==
  /\ pc[c] = "wait"
  /\ pc' = [pc EXCEPT ![c] = "failed"]
  /\ UNCHANGED <<nextSeq, pending, seq, chan, loop, net, replied>>

-----------------------------------------------------------------------------
(* readLoop. *)

(* The channel stays in the map. *)
Mut_Dispatch_keep(s) ==
  /\ loop = Reading
  /\ UNCHANGED pending
  /\ loop' = IF s \in DOMAIN pending THEN SendingTo(pending[s]) ELSE Reading

(* The wrong channel: any that is waiting, as if there were one call at a  *)
(* time.                                                                   *)
Mut_Dispatch_any(s) ==
  /\ loop = Reading
  /\ DOMAIN pending # {}
  /\ \E x \in DOMAIN pending : /\ pending' = Without(pending, x)
                               /\ loop' = SendingTo(pending[x])

(* A message with number s has been read and parsed: the channel is taken  *)
(* out of the map.  Without an entry the message is dropped.               *)
Dispatch(s) ==
  /\ loop = Reading
  /\ pending' = Without(pending, s)
  /\ loop' = IF s \in DOMAIN pending THEN SendingTo(pending[s]) ELSE Reading

(* A reply arrives; the network may deliver it again. *)
ReplyArrives(m) ==
  /\ Dispatch(m.seq)
  /\ net' \in {net, net \ {m}}
  /\ UNCHANGED <<nextSeq, pc, seq, chan, replied>>

ForeignArrives(s) ==
  /\ Dispatch(s)
  /\ UNCHANGED <<nextSeq, pc, seq, chan, net, replied>>

(* ch <- result: blocks while the slot of the channel is taken. *)
Deliver(c) ==
  /\ loop = SendingTo(c)
  /\ chan[c] = 0
  /\ chan' = [chan EXCEPT ![c] = 1]
  /\ loop' = Reading
  /\ UNCHANGED <<nextSeq, pending, pc, seq, net, replied>>

(* ReadFrom fails: the loop is over for good. *)
ReadFails ==
  /\ loop = Reading
  /\ loop' = Ended
  /\ UNCHANGED <<nextSeq, pending, pc, seq, chan, net, replied>>

-----------------------------------------------------------------------------
(* The target and the network. *)

(* The target answers the request of c, if it has reached it.  Nobody      *)
(* stops it from answering after c has given up, as long as the number of  *)
(* c has not come round again.                                             *)
TargetReplies(c) ==
  /\ pc[c] \in {"wait", "failed"}
  /\ c \notin replied
  /\ \A d \in Call : d # c /\ seq[d] = seq[c] => ~ Active(d)
  /\ replied' = replied \cup {c}
  /\ net' = net \cup {[seq |-> seq[c], call |-> c]}
  /\ UNCHANGED <<nextSeq, pending, pc, seq, chan, loop>>

Lose(m) ==
  /\ net' = net \ {m}
  /\ UNCHANGED <<nextSeq, pending, pc, seq, chan, loop, replied>>

(* All calls are over and no message is left. *)
Quiet ==
  /\ \A c \in Call : pc[c] \in {"ok", "unsent", "failed"}
  /\ net = {}
  /\ UNCHANGED icmpVars

Next ==
  \/ \E c \in Call : \/ Register(c) \/ Write(c) \/ WriteFails(c)
                     \/ Succeed(c) \/ TimeOut(c) \/ CtxDone(c)
                     \/ Deliver(c) \/ TargetReplies(c)
  \/ \E m \in net : ReplyArrives(m) \/ Lose(m)
  \/ \E s \in Foreign : ForeignArrives(s)
  \/ ReadFails \/ Quiet

Spec == Init /\ [][Next]_icmpVars

(* Calls and timers run; readLoop sends when it can; the lifetime of a     *)
(* datagram is bounded.                                                    *)
FairSpec ==
  /\ Spec
  /\ \A c \in Call : /\ WF_icmpVars(Write(c) \/ WriteFails(c))
                     /\ WF_icmpVars(TimeOut(c))
                     /\ WF_icmpVars(Deliver(c))

-----------------------------------------------------------------------------
(* Calls, channels and the map are well formed: a channel has one slot. *)
TypeOK ==
  /\ nextSeq \in Seq16
  /\ DOMAIN pending \subseteq Seq16 /\ Range(pending) \subseteq Call
  /\ pc \in [Call -> {"new", "write", "wait", "ok", "unsent", "failed"}]
  /\ seq \in [Call -> Seq16]
  /\ chan \in [Call -> 0 .. 1]
  /\ loop \in {Reading, Ended} \cup {SendingTo(c) : c \in Call}
  /\ net \subseteq [seq : Seq16, call : Call]

(* readLoop never blocks on the channel of a call, which would stall every *)
(* other: a channel leaves the map before it is sent to, so no duplicate   *)
(* of a reply fills it twice, even if nobody reads it any more.            *)
LoopNeverBlocks == \A c \in Call : loop = SendingTo(c) => chan[c] = 0

(* The entry a waiting call needs to be found by is there until a message  *)
(* has been taken for it, whatever entries earlier calls left behind and   *)
(* whichever they delete late.                                             *)
ReplyFindsWaiter ==
  \A c \in Call :
    Active(c) => \/ chan[c] = 1
                 \/ loop = SendingTo(c)
                 \/ seq[c] \in DOMAIN pending /\ pending[seq[c]] = c

(* A call never succeeds on the answer to another call, old or concurrent: *)
(* its own target has answered, or a foreign message bore its number.      *)
OKMeansOwnNumber ==
  \A c \in Call : pc[c] = "ok" => c \in replied \/ seq[c] \in Foreign

(* Every call of Probe comes to an end, also when readLoop has ended. *)
CallsEnd == \A c \in Call : Active(c) ~> ~ Active(c)

-----------------------------------------------------------------------------
(* The comment on Probe says that it "waits for a reply": it succeeds only *)
(* if its target has sent one.                                             *)
OKMeansReplied == \A c \in Call : pc[c] = "ok" => c \in replied
=============================================================================
