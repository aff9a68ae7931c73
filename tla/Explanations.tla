---------------------------- MODULE Explanations ----------------------------
(***************************************************************************)
(* Who wrote the narratives: the model, the template, or the template      *)
(* because the model failed.  No state.                                    *)
(*                                                                         *)
(* Sources: app/services/explanation_service.py, app/services/             *)
(* llm_service.py.                                                         *)
(***************************************************************************)

Generators == {"LLM", "DETERMINISTIC", "DETERMINISTIC_FALLBACK"}

\* LangChainLLMService.generate_narrative: a text, or LlmError when the provider
\* is unknown, its package missing, the call failed or the text empty.
LlmReplies == {"text", "LlmError"}

\* ExplanationService.generate_narrative: the generator of one narrative.
Narrator(available, reply) ==
  IF ~available THEN "DETERMINISTIC"
  ELSE IF reply = "text" THEN "LLM" ELSE "DETERMINISTIC_FALLBACK"

\* Mutant of WholeGenerator: one narrative of the model's is enough.
WholeGeneratorAny(generators) ==
  IF "LLM" \in generators THEN "LLM"
  ELSE IF "DETERMINISTIC_FALLBACK" \in generators THEN "DETERMINISTIC_FALLBACK"
  ELSE "DETERMINISTIC"

\* The generator explain() reports for the analysis as a whole.
WholeGenerator(generators) ==
  IF generators = {"LLM"} THEN "LLM"
  ELSE IF "DETERMINISTIC_FALLBACK" \in generators THEN "DETERMINISTIC_FALLBACK"
  ELSE "DETERMINISTIC"
=============================================================================
