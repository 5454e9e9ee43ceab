------------------------- MODULE TransitionRegister -------------------------
(***************************************************************************)
(* What an incident store promises to the clients of its diagnosis-loop-   *)
(* transition endpoint, which retry: a key is recorded once, by one event  *)
(* that the log of its incident gets in the same step, with the            *)
(* fingerprint of the request that came first, for good; and an answer is  *)
(* given only on the strength of what is recorded.  No process, cache,     *)
(* transaction or crash appears here; module IncidentStore implements this *)
(* one.                                                                    *)
(***************************************************************************)
EXTENDS Integers

CONSTANTS
  Incident,     \* incident identifiers
  Key,          \* idempotency keys: records with a field incident
  Fingerprint,  \* payload fingerprints of requests
  None          \* no fingerprint

VARIABLES
  recorded,     \* recorded[k]: fingerprint recorded for key k, or None
  length,       \* length[i]: events in the log of incident i
  positions,    \* positions[k]: where that log has events of key k
  replies       \* what clients were answered

vars == <<recorded, length, positions, replies>>

Init == /\ recorded = [k \in Key |-> None]
        /\ length = [i \in Incident |-> 0]
        /\ positions = [k \in Key |-> {}]
        /\ replies = {}

\* Another request appends an event, or the two that open an incident with a
\* bundle.
AppendOther(i) ==
  /\ \E n \in {1, 2} : length' = [length EXCEPT ![i] = @ + n]
  /\ UNCHANGED <<recorded, positions, replies>>

\* The first request with key k appends its event and records its fingerprint.
Record(k, f) ==
  /\ recorded[k] = None
  /\ recorded' = [recorded EXCEPT ![k] = f]
  /\ length' = [length EXCEPT ![k.incident] = @ + 1]
  /\ positions' = [positions EXCEPT ![k] = {length[k.incident] + 1}]
  /\ UNCHANGED replies

Answer(k, f, outcome) ==
  /\ replies' = replies \cup {[key |-> k, fingerprint |-> f, outcome |-> outcome]}
  /\ UNCHANGED <<recorded, length, positions>>

\* Applied now or by an earlier request with the same fingerprint.
Acknowledge(k, f) == recorded[k] = f /\ Answer(k, f, "applied")

\* Recorded for another payload.
Refuse(k, f) == recorded[k] \notin {None, f} /\ Answer(k, f, "replay_mismatch")

Next == \/ \E i \in Incident : AppendOther(i)
        \/ \E k \in Key, f \in Fingerprint :
              Record(k, f) \/ Acknowledge(k, f) \/ Refuse(k, f)

Spec == Init /\ [][Next]_vars
=============================================================================
