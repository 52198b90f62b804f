----------------------------- MODULE MCLogging -----------------------------
(* The three parts of logging share no state: each behaviour is one of the  *)
(* logger, of the aggregator or of the file manager, with the others at     *)
(* rest.                                                                   *)
EXTENDS Logger, LogAggregator, LogFileManager

VARIABLE part
logging == <<part, lvars, avars, mvars>>

MCDestinations ==
    <<[name |-> "file", type |-> "FILE", enabled |-> TRUE, levels |-> {1, 3}, rotate |-> TRUE],
      [name |-> "http", type |-> "HTTP", enabled |-> TRUE, levels |-> {3}, rotate |-> FALSE]>>

Init ==
    /\ part \in {"logger", "aggregator", "files"}
    /\ LInit /\ AInit /\ MInit
    /\ part # "logger" => enabled = [c \in Channel |-> FALSE]

Next ==
    \/ part = "logger" /\ LNext /\ UNCHANGED <<part, avars, mvars>>
    \/ part = "aggregator" /\ ANext /\ UNCHANGED <<part, lvars, mvars>>
    \/ part = "files" /\ MNext /\ UNCHANGED <<part, lvars, avars>>

Spec == Init /\ [][Next]_logging

Threads == Permutations(Thread) \union Permutations(Source) \union Permutations(Writer)
=============================================================================
