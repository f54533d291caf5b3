---------------------------- MODULE MCSurgeons ----------------------------
(* An instance of Surgeons: a CLI that does everything, under each kind of
   override, beside an MCP server that consults; the ladders are shortened. *)
EXTENDS Surgeons, TLC

CONSTANTS cli, mcp

Ladders   == [cardio |-> <<"deepseek", "openai">>, neuro |-> <<"ollama", "deepseek">>]
Fallbacks == [cardio |-> <<>>, neuro |-> <<"openai">>]

\* Calls that walk both ladders, and calls that walk neither.
Plain(j) == [job |-> j, env |-> NoUse, canary |-> TRUE, yaml |-> NoUse, flag |-> NoUse]
Still(j) == [Plain(j) EXCEPT !.env = [s \in Surgeon |-> "disabled"]]

Calls ==
  (cli :> { Plain("consult"), Still("probe"),
            [Still("gated") EXCEPT !.env.neuro = "deepseek", !.flag.cardio = "deepseek"],
            [Still("consensus") EXCEPT !.env.neuro = None, !.flag.neuro = "mlx",
                                       !.yaml.neuro = "deepseek-reasoner",
                                       !.yaml.cardio = "anthropic"],
            [Still("consensus") EXCEPT !.env.cardio = None, !.env.neuro = "deepseek"],
            [Still("consensus") EXCEPT !.flag.cardio = "deepseek", !.canary = FALSE,
                                       !.yaml.neuro = "deepseek-reasoner"] })
  @@ (mcp :> { [Still("consult") EXCEPT !.env.neuro = "bogus", !.yaml.neuro = "vllm"] })

\* One call whose files name a cardiologist.
YamlCalls == cli :> { [Plain("consult") EXCEPT !.yaml.cardio = "anthropic"] }
===========================================================================
