----------------------------- MODULE MCSession -----------------------------
(* A process with a repository of its own and another one, under every     *)
(* choice of LLM providers.                                                *)
EXTENDS Session, TLC

CONSTANTS home, other

AllSetups ==
  [usable : {{}, {"anthropic"}, {"openrouter", "z-ai"}, {"z-ai"}},
   pinned : {"", "openrouter", "unknown"}]
============================================================================
