------------------------------- MODULE Health -------------------------------
(***************************************************************************)
(* The state a node reports for a (peer, protocol) pair over time: the     *)
(* store's ring (Store) read through the classifier (Classifier) with the  *)
(* settings of the configuration file.  The whole history of each pair is  *)
(* kept beside the ring, to say what the state ought to be.                *)
(***************************************************************************)
EXTENDS Store, Classifier, FiniteSetsExt

CONSTANTS Settings,  \* [window, threshold] records that Validate accepts
          MaxHist    \* bound: results recorded in one behaviour

(* config.Validate: the only rule about the two numbers. *)
ValidSettings(s) == s.threshold <= s.window

ASSUME SettingsAssumption ==
  \A s \in Settings : s.window \in Nat /\ s.threshold \in Int /\ ValidSettings(s)
ASSUME SuccessAssumption == Success \subseteq Result

VARIABLES settings,  \* probe.failureWindow and probe.failureThreshold
          hist       \* hist[k]: every result recorded for k, oldest first

healthVars == <<bufs, settings, hist>>

(* What localView reports for k. *)
StateOf(k) == Classify(Snapshot(k), settings.window, settings.threshold)

HealthInit ==
  /\ Init
  /\ settings \in Settings
  /\ hist = [k \in Key |-> <<>>]

(* How many results have been recorded, over all keys. *)
Total == MapThenSumSet(LAMBDA k : Len(hist[k]), Key)

Probed(k, r) ==
  /\ Total < MaxHist
  /\ AppendResult(k, r)
  /\ hist' = [hist EXCEPT ![k] = Append(@, r)]
  /\ UNCHANGED settings

(* The bound on the history is reached. *)
AllRecorded ==
  /\ Total = MaxHist
  /\ UNCHANGED healthVars

HealthNext == \/ \E k \in Key, r \in Result : Probed(k, r)
              \/ AllRecorded

HealthSpec == HealthInit /\ [][HealthNext]_healthVars

-----------------------------------------------------------------------------
(* Every ring is well formed and the settings never change. *)
HealthTypeOK == /\ TypeOK
                /\ settings \in Settings
                /\ hist \in [Key -> Seq(Result)]

LastOf(k, n) == {i \in DOMAIN hist[k] : i > Len(hist[k]) - n}
FailedIn(k, is) == {i \in is : hist[k][i] \notin Success}

(* The doc of Classify, read over everything that was ever recorded for a  *)
(* key and not over what the ring happens to retain: unknown until window  *)
(* results exist, then down iff at least threshold of the last window      *)
(* failed, up iff none of them did, degraded otherwise.                    *)
MatchesHistory ==
  \A k \in Keys :
    LET last   == LastOf(k, settings.window)
        failed == Cardinality(FailedIn(k, last))
    IN  /\ StateOf(k) = Unknown <=> Len(hist[k]) < settings.window
        /\ Len(hist[k]) >= settings.window =>
             /\ StateOf(k) = Down <=> failed >= settings.threshold
             /\ StateOf(k) = Up <=> failed = 0
             /\ StateOf(k) = Degraded <=> failed \in 1 .. settings.threshold - 1

(* One result never takes a pair from up to down or from down to up unless *)
(* the threshold is one failure: degraded lies between.                    *)
NoFlap ==
  [][\A k \in Keys :
       settings.threshold > 1 => {StateOf(k), (StateOf(k))'} # {Up, Down}]_healthVars
=============================================================================
