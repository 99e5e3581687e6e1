--------------------------- MODULE MCProviderFlow ---------------------------
(* Instances of ProviderFlow for TLC. *)
EXTENDS ProviderFlow, TLC

CONSTANTS f1, f2, p1, p2, p3, x, z, std, legacy, typed, openai, ollama, speech, chat, responses

\* Two connections of different modes to different endpoints.
MCDriverOf == (x :> chat) @@ (z :> responses)
MCUrlOf == (x :> 1) @@ (z :> 2)
MCServerModels == (x :> {std, legacy}) @@ (z :> {typed})

\* A provider with two modes and a deprecated model, one with a single model, and one
\* whose models none of the modes can use.
MCDriversOf == (openai :> {chat, responses}) @@ (ollama :> {chat}) @@ (speech :> {})
MCCatalogModels == (openai :> {std, legacy}) @@ (ollama :> {typed}) @@ (speech :> {std, legacy, typed})
MCShows == ("default" :> {std, typed}) @@ ("all" :> {std, legacy, typed})

P(model, enabled, discovered) ==
  [model |-> model, enabled |-> enabled, discovered |-> discovered, version |-> 0]

\* Made by the wizard with the deprecated model disabled since; and a custom
\* provider whose model was typed.
MCFirstData ==
  {[conn |-> x, meta |-> openai, custom |-> {}, cache |-> None,
    profiles |-> (1 :> P(std, TRUE, TRUE)) @@ (2 :> P(legacy, FALSE, TRUE))],
   [conn |-> z, meta |-> None, custom |-> {typed}, cache |-> None,
    profiles |-> (1 :> P(typed, TRUE, FALSE))]}
=============================================================================
