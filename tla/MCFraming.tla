----------------------------- MODULE MCFraming ------------------------------
EXTENDS Framing, SequencesExt

(* Up to three requests of every length up to one past the limit. *)
MCStreams == BoundedSeq([length : 0..MaxRequest + 1, defects : {{}, {"not json"}, {"version", "no id"}}], 2)
               \cup {[i \in 1..3 |-> [length |-> l[i], defects |-> {}]] :
                       l \in [1..3 -> 0..MaxRequest + 1]}
=============================================================================
