------------------------------ MODULE MCStudio ------------------------------
(* Studio with two templates, one of them with a machine fault and a network   *)
(* fault that the form cannot express, and a user who types a manifest without *)
(* the number, or a text that does not parse.                                  *)
EXTENDS Studio

Drift == [domain |-> "machine", type |-> "encoder_drift"]
Loss == [domain |-> "network", type |-> "packet_loss"]

Baseline == [number |-> 1, scenarios |-> {}]
StudyTemplates == {Baseline,
                   [number |-> 1, scenarios |-> {Drift, Loss}]}

Texts == {[number |-> 0, scenarios |-> {Drift}], Garbled}

=============================================================================
