---------------------------- MODULE MCPairingJob -----------------------------
(* Instances of PairingJob for TLC.  The browser asks for pairings on the     *)
(* HTTP task, Home Assistant actions for reads and raw commands on the main   *)
(* task.  With one caller the calls of start() do not overlap.                *)
EXTENDS PairingJobRefinement

PairAny == {[kind |-> "PAIR", family |-> f] : f \in Families}
PairVision == {[kind |-> "PAIR", family |-> "VISION"]}
PairOriginal == {[kind |-> "PAIR", family |-> "ORIGINAL"]}
Actions == [kind : {"RAW", "READ"}, family : {"ORIGINAL"}]
Reads == [kind : {"READ"}, family : {"ORIGINAL"}]

OneCaller == [c \in {"any"} |-> PairAny \cup Actions]
BrowserOnly == [c \in {"http"} |-> PairVision]
BrowserAndActions == [c \in {"http", "main"} |-> IF c = "http" THEN PairOriginal ELSE Reads]
=============================================================================
