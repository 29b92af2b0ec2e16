---------------------------- MODULE MCLLMRouter ----------------------------
(***************************************************************************)
(* Instances of LLMRouter for TLC.                                          *)
(***************************************************************************)
EXTENDS LLMRouter

\* A scraping stage with one light model, then an intelligence stage with an analysis
\* and a heavy model, on two providers.
TwoChains == << << <<"cerebras", "nvidia">> >>, << <<"cerebras">>, <<"nvidia">> >> >>
TwoSuspects == <<"cerebras", "nvidia">>

\* The light model of NVIDIA has a name that the code takes for one of Cerebras.
NvidiaBlamesCerebras ==
  [m \in {"cerebras", "nvidia", "local"} |->
     IF m = "cerebras" THEN {"cerebras"}
     ELSE IF m = "nvidia" THEN {"cerebras", "nvidia"} ELSE {}]

\* One stage on a single provider.
OneChain == << << <<"cerebras">> >> >>
OneSuspect == <<"cerebras">>
OwnFault == [m \in {"cerebras", "local"} |-> IF m = "cerebras" THEN {m} ELSE {}]
============================================================================
