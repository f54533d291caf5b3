CONSTANTS
  cli = cli
  mcp = mcp
  Process = {cli}
  Server = {}
  Use <- YamlCalls
  Local = {"ollama", "mlx", "mlx_proxy", "vllm"}
  Provider = {"ollama", "mlx", "mlx_proxy", "vllm", "openai", "deepseek", "deepseek-reasoner",
              "anthropic"}
  Ladder <- Ladders
  Fallback <- Fallbacks
  Retries = 1
  Vote = {"agree", "disagree"}
  MaxCalls = 2
  MaxErrors = 1
  None = None
SPECIFICATION Spec
INVARIANT YamlKept
